---- MODULE Spec2Model ----
(***************************************************************************)
(* Graph assembly of the three relationship views of ethos-scanner:        *)
(* InvitationMap (and its earlier revision), VouchesMap and ReviewsMap.    *)
(* Each view keeps an accumulated record list, ring / sentiment toggles,   *)
(* and a render effect that normalizes the records into a node map,        *)
(* filters it and hands nodes and links to the force layout.               *)
(*                                                                         *)
(* Node keys are the decimal strings of profile ids in the source; the     *)
(* conversion is injective and keys are only compared with keys, so a key  *)
(* is represented by the number it prints.                                 *)
(***************************************************************************)
EXTENDS Integers, Sequences, FiniteSets, TLC

\* ------------------------------------------------------------------ bounds
MaxId == 3          \* identities 1..MaxId occur in the enumerated records
MaxLevel == 2       \* level tags 1..MaxLevel occur in the enumerated records
MaxRecords == 2     \* length of the enumerated record lists

\* ------------------------------------------------------- program constants
MAX_TOTAL_NODES == 200
MAX_TOTAL_NODES_REVIEWS == 200
INVITATION_NODE_LIMIT == 200
INVITATION_RECORD_LIMIT == 200

\* JS null of a `number | null` field; ids and levels are never negative
Null == 0 - 1

\* the profile the page searches first
FirstProfile == 1

Kinds == {"invitation", "invitationEarlier", "vouch", "review"}
Sentiments == {"positive", "neutral", "negative"}

VARIABLES kind, loading, records, visibleRings, visibleSentiments, rendered,
          isFullscreen, theme, simulations, unmounted,
          root, error, inflight, storage, now, lastRead, stored

viewVars == <<visibleRings, visibleSentiments, rendered>>

\* isFullscreen: the fullscreen state; theme: the theme of useTheme();
\* simulations: the force simulations the render effect created that still
\* run or that a drag gesture still refers to, oldest first; unmounted: React
\* has removed the view
layoutVars == <<isFullscreen, theme, simulations, unmounted>>

\* the state of the controls of the view
settingVars == <<visibleRings, visibleSentiments, isFullscreen, theme>>

\* root: the profileId prop; error: the error state; inflight: the calls of
\* the fetch procedure that were started, with their position and locals
fetchVars == <<root, error, inflight>>

\* storage: localStorage; now: Date.now(); lastRead: the latest getCachedData
\* call and what it returned; stored: per key, the value and time of the
\* latest setCachedData whose entry is still in storage
cacheVars == <<storage, now, lastRead, stored>>

vars == <<kind, loading, records, visibleRings, visibleSentiments, rendered,
          isFullscreen, theme, simulations, unmounted,
          root, error, inflight, storage, now, lastRead, stored>>


Themes == {"light", "dark"}

\* ------------------------------------------------------------- JS helpers
\* truthiness of a number | null
Truthy(x) == x # Null /\ x # 0

\* Map.get(k) || d  on a Map<string, number>
GetOr(m, k, d) == IF k \in DOMAIN m /\ Truthy(m[k]) THEN m[k] ELSE d

\* Map.set(k, v)
MapSet(m, k, v) == [x \in (DOMAIN m) \cup {k} |-> IF x = k THEN v ELSE m[x]]

EmptyMap == [x \in {} |-> 0]

\* Array.prototype.forEach / reduce over a list, left to right: the result is
\* op(... op(op(base, seq[1]), seq[2]) ..., seq[n]).  The list is walked by
\* halves, the left half first, so that the evaluation stays shallow on
\* lists of a few hundred records.
Fold(op(_, _), base, seq) ==
  LET RECURSIVE go(_, _, _)
      go(b, lo, hi) ==
        IF lo > hi THEN b
        ELSE IF lo = hi THEN op(b, seq[lo])
        ELSE LET mid == (lo + hi) \div 2
                 left == go(b, lo, mid)
             IN IF left = left THEN go(left, mid + 1, hi) ELSE b
  IN go(base, 1, Len(seq))

\* Array.prototype.slice(0, n)
Slice(seq, n) == SubSeq(seq, 1, IF Len(seq) < n THEN Len(seq) ELSE n)

\* Array.prototype.filter
Filter(seq, keep(_)) ==
  Fold(LAMBDA acc, x : IF keep(x) THEN Append(acc, x) ELSE acc, <<>>, seq)

\* A Map<string, Node> keeps insertion order; it is a sequence of nodes with
\* pairwise distinct ids.
Has(nodeMap, id) == \E i \in 1..Len(nodeMap) : nodeMap[i].id = id

Get(nodeMap, id) == nodeMap[CHOOSE i \in 1..Len(nodeMap) : nodeMap[i].id = id]

\* nodeMap.set(id, node) for a new key
Put(nodeMap, node) == Append(nodeMap, node)

\* in-place mutation of the node object stored under id
Update(nodeMap, id, node) ==
  [i \in 1..Len(nodeMap) |-> IF nodeMap[i].id = id THEN node ELSE nodeMap[i]]

Ids(nodes) == {nodes[i].id : i \in 1..Len(nodes)}

\* visibleRings[level] ?? dflt
RingFlag(rings, level, dflt) == IF level \in DOMAIN rings THEN rings[level] ELSE dflt

\* first pass helper: keep the smaller level per key
TrackMin(m, id, level) ==
  IF id \notin DOMAIN m \/ level < m[id] THEN MapSet(m, id, level) ELSE m

RootNode(type, profileId) == [id |-> profileId, isRoot |-> TRUE, type |-> type, level |-> 0]

\* ============================================================ VouchesMap
\* faulty variant of VouchTrackRecord: the author side is not tracked
VouchTrackRecordSubjectOnly(m, vouch, profileId) ==
  IF Truthy(vouch.subjectProfileId)
  THEN TrackMin(m, vouch.subjectProfileId, vouch.level) ELSE m

\* first pass of the render effect: minimum level per user
VouchTrackRecord(m, vouch, profileId) ==
  LET m1 == IF Truthy(vouch.subjectProfileId)
            THEN TrackMin(m, vouch.subjectProfileId, vouch.level) ELSE m
  IN IF Truthy(vouch.authorProfileId) /\ vouch.authorProfileId # profileId
     THEN TrackMin(m1, vouch.authorProfileId, vouch.level) ELSE m1

VouchUserMinLevels(allVouches, profileId) ==
  Fold(LAMBDA m, vouch : VouchTrackRecord(m, vouch, profileId), EmptyMap, allVouches)

\* second pass, subject side of one record
VouchProcessSubject(nodeMap, mins, vouch, profileId) ==
  LET subjectId == vouch.subjectProfileId IN
  IF ~Truthy(vouch.subjectProfileId) THEN nodeMap
  ELSE IF ~Has(nodeMap, subjectId)
  THEN Put(nodeMap, [id |-> subjectId, isRoot |-> FALSE,
                     type |-> IF vouch.authorProfileId = profileId
                              THEN "received" ELSE "given",
                     level |-> GetOr(mins, subjectId, vouch.level)])
  ELSE LET node == Get(nodeMap, subjectId)
           minLevel == GetOr(mins, subjectId, node.level)
       IN Update(nodeMap, subjectId,
                 [node EXCEPT !.level = IF minLevel < node.level THEN minLevel ELSE @,
                              !.type = "both"])

\* second pass, author side of one record
VouchProcessAuthor(nodeMap, mins, vouch, profileId) ==
  LET authorId == vouch.authorProfileId IN
  IF ~(Truthy(vouch.authorProfileId) /\ vouch.authorProfileId # profileId) THEN nodeMap
  ELSE IF ~Has(nodeMap, authorId)
  THEN Put(nodeMap, [id |-> authorId, isRoot |-> FALSE,
                     type |-> IF vouch.subjectProfileId = profileId
                              THEN "given" ELSE "received",
                     level |-> GetOr(mins, authorId, vouch.level)])
  ELSE LET node == Get(nodeMap, authorId)
           minLevel == GetOr(mins, authorId, node.level)
       IN Update(nodeMap, authorId,
                 [node EXCEPT !.level = IF minLevel < node.level THEN minLevel ELSE @,
                              !.type = "both"])

VouchNodeMap(allVouches, profileId) ==
  LET mins == VouchUserMinLevels(allVouches, profileId) IN
  Fold(LAMBDA nm, vouch :
         VouchProcessAuthor(VouchProcessSubject(nm, mins, vouch, profileId), mins, vouch,
                            profileId),
       <<RootNode("root", profileId)>>, allVouches)

\* own-visibility of a node under the ring flags
VouchRingVisible(node, rings) ==
  \/ node.isRoot
  \/ node.level = 0
  \/ (node.level = 1 /\ RingFlag(rings, 1, TRUE))
  \/ RingFlag(rings, node.level, FALSE)

\* faulty variant of VouchFilteredByRing: deeper rings are not looked up
VouchFilteredByRingAlways(node, rings) ==
  IF node.isRoot \/ node.level = 0 THEN TRUE
  ELSE IF node.level = 1 THEN RingFlag(rings, 1, TRUE)
  ELSE TRUE

\* filteredNodesByRing predicate
VouchFilteredByRing(node, rings) ==
  IF node.isRoot \/ node.level = 0 THEN TRUE
  ELSE IF node.level = 1 THEN RingFlag(rings, 1, TRUE)
  ELSE RingFlag(rings, node.level, FALSE)

\* endpoints of records whose both ends are ring-visible
VouchNeededNodeIds(allVouches, nodeMap, rings) ==
  UNION { {allVouches[i].authorProfileId, allVouches[i].subjectProfileId} :
          i \in { j \in 1..Len(allVouches) :
                   /\ Has(nodeMap, allVouches[j].authorProfileId)
                   /\ Has(nodeMap, allVouches[j].subjectProfileId)
                   /\ VouchRingVisible(Get(nodeMap, allVouches[j].authorProfileId), rings)
                   /\ VouchRingVisible(Get(nodeMap, allVouches[j].subjectProfileId), rings) } }

\* faulty variant of VouchNodes: the node list is not cut to the limit
VouchNodesUncut(allVouches, nodeMap, rings) ==
  LET visibleNodeIds == {nodeMap[i].id : i \in {j \in 1..Len(nodeMap) : VouchFilteredByRing(nodeMap[j], rings)}}
      finalNodeIds == visibleNodeIds \cup VouchNeededNodeIds(allVouches, nodeMap, rings)
  IN Filter(nodeMap, LAMBDA node : node.id \in finalNodeIds)

\* nodes handed to the layout
VouchNodes(allVouches, nodeMap, rings) ==
  LET visibleNodeIds == {nodeMap[i].id : i \in {j \in 1..Len(nodeMap) : VouchFilteredByRing(nodeMap[j], rings)}}
      finalNodeIds == visibleNodeIds \cup VouchNeededNodeIds(allVouches, nodeMap, rings)
  IN Slice(Filter(nodeMap, LAMBDA node : node.id \in finalNodeIds), MAX_TOTAL_NODES)

\* vouchPairs: source -> set of targets, over every record of the list
VouchPairs(allVouches) ==
  Fold(LAMBDA m, vouch :
         LET sourceId == vouch.authorProfileId
             targetId == vouch.subjectProfileId
         IN MapSet(m, sourceId,
                   (IF sourceId \in DOMAIN m THEN m[sourceId] ELSE {}) \cup {targetId}),
       EmptyMap, allVouches)

\* faulty variant of VouchIsReciprocal: the pair is looked up in the
\* direction of the link itself
VouchIsReciprocalSameWay(vouchPairs, sourceId, targetId) ==
  IF sourceId \in DOMAIN vouchPairs THEN targetId \in vouchPairs[sourceId] ELSE FALSE

\* vouchPairs.get(targetId)?.has(sourceId) ?? false
VouchIsReciprocal(vouchPairs, sourceId, targetId) ==
  IF targetId \in DOMAIN vouchPairs THEN sourceId \in vouchPairs[targetId] ELSE FALSE

\* faulty variant of VouchLinkKept: membership in the rendered set is not
\* asked
VouchLinkKeptAnyNode(vouch, nodeMap, nodeIds, rings) ==
  /\ Has(nodeMap, vouch.authorProfileId)
  /\ Has(nodeMap, vouch.subjectProfileId)
  /\ VouchRingVisible(Get(nodeMap, vouch.authorProfileId), rings)
  /\ VouchRingVisible(Get(nodeMap, vouch.subjectProfileId), rings)

\* does the record become a link
VouchLinkKept(vouch, nodeMap, nodeIds, rings) ==
  /\ vouch.authorProfileId \in nodeIds
  /\ vouch.subjectProfileId \in nodeIds
  /\ Has(nodeMap, vouch.authorProfileId)
  /\ Has(nodeMap, vouch.subjectProfileId)
  /\ VouchRingVisible(Get(nodeMap, vouch.authorProfileId), rings)
  /\ VouchRingVisible(Get(nodeMap, vouch.subjectProfileId), rings)

VouchLinks(allVouches, nodeMap, nodes, rings) ==
  LET nodeIds == Ids(nodes)
      vouchPairs == VouchPairs(allVouches)
      mk(vouch) ==
        LET s == Get(nodeMap, vouch.authorProfileId)
            t == Get(nodeMap, vouch.subjectProfileId)
        IN [source |-> vouch.authorProfileId, target |-> vouch.subjectProfileId,
            level |-> IF s.level > t.level THEN s.level ELSE t.level,
            isReciprocal |-> VouchIsReciprocal(vouchPairs, vouch.authorProfileId,
                                               vouch.subjectProfileId)]
  IN Fold(LAMBDA acc, vouch : IF VouchLinkKept(vouch, nodeMap, nodeIds, rings)
                              THEN Append(acc, mk(vouch)) ELSE acc,
          <<>>, allVouches)

RenderVouch(allVouches, rings, profileId) ==
  LET nodeMap == VouchNodeMap(allVouches, profileId)
      nodes == VouchNodes(allVouches, nodeMap, rings)
  IN [nodeMap |-> nodeMap, nodes |-> nodes,
      links |-> VouchLinks(allVouches, nodeMap, nodes, rings)]

\* ============================================================ ReviewsMap
\* first pass of the render effect: minimum level per user
ReviewTrackRecord(m, activity, profileId) ==
  LET m1 == IF Truthy(activity.subject.profileId)
            THEN TrackMin(m, activity.subject.profileId, activity.level) ELSE m
  IN IF Truthy(activity.author.profileId) /\ activity.author.profileId # profileId
     THEN TrackMin(m1, activity.author.profileId, activity.level) ELSE m1

ReviewUserMinLevels(allReviews, profileId) ==
  Fold(LAMBDA m, activity : ReviewTrackRecord(m, activity, profileId), EmptyMap, allReviews)

\* second pass, subject side of one record (the subject is not the root)
ReviewProcessSubject(nodeMap, mins, activity, profileId) ==
  LET subjectId == activity.subject.profileId IN
  IF ~Has(nodeMap, subjectId)
  THEN LET minLevel == GetOr(mins, subjectId, activity.level)
           nodeLevel == IF minLevel = 0 THEN activity.level ELSE minLevel
       IN Put(nodeMap, [id |-> subjectId, isRoot |-> FALSE,
                        type |-> IF activity.author.profileId = profileId
                                 THEN "received" ELSE "given",
                        level |-> nodeLevel])
  ELSE LET node == Get(nodeMap, subjectId)
           minLevel == GetOr(mins, subjectId, node.level)
           nodeLevel == IF minLevel = 0 THEN node.level
                        ELSE IF minLevel < node.level THEN minLevel ELSE node.level
       IN Update(nodeMap, subjectId,
                 [node EXCEPT !.level = IF nodeLevel < node.level THEN nodeLevel ELSE @,
                              !.type = "both"])

\* second pass, author side of one record
ReviewProcessAuthor(nodeMap, mins, activity, profileId) ==
  LET authorId == activity.author.profileId IN
  IF ~(Truthy(activity.author.profileId) /\ activity.author.profileId # profileId)
  THEN nodeMap
  ELSE IF authorId = profileId THEN nodeMap
  ELSE IF ~Has(nodeMap, authorId)
  THEN LET minLevel == GetOr(mins, authorId, activity.level)
           nodeLevel == IF minLevel = 0 THEN activity.level ELSE minLevel
       IN Put(nodeMap, [id |-> authorId, isRoot |-> FALSE,
                        type |-> IF activity.subject.profileId = profileId
                                 THEN "given" ELSE "received",
                        level |-> nodeLevel])
  ELSE LET node == Get(nodeMap, authorId)
           minLevel == GetOr(mins, authorId, node.level)
           nodeLevel == IF minLevel = 0 THEN node.level
                        ELSE IF minLevel < node.level THEN minLevel ELSE node.level
       IN Update(nodeMap, authorId,
                 [node EXCEPT !.level = IF nodeLevel < node.level THEN nodeLevel ELSE @,
                              !.type = "both"])

\* one iteration of the second forEach: `return` on a subject that is the
\* root leaves the callback, so the author side of that record is not run
ReviewProcessRecord(nodeMap, mins, activity, profileId) ==
  IF Truthy(activity.subject.profileId)
  THEN IF activity.subject.profileId = profileId
       THEN nodeMap
       ELSE ReviewProcessAuthor(ReviewProcessSubject(nodeMap, mins, activity, profileId), mins,
                                activity, profileId)
  ELSE ReviewProcessAuthor(nodeMap, mins, activity, profileId)

ReviewNodeMap(allReviews, profileId) ==
  LET mins == ReviewUserMinLevels(allReviews, profileId) IN
  Fold(LAMBDA nm, activity : ReviewProcessRecord(nm, mins, activity, profileId),
       <<RootNode("root", profileId)>>, allReviews)

ReviewRingVisible(node, rings) ==
  \/ node.isRoot
  \/ node.level = 0
  \/ (node.level = 1 /\ RingFlag(rings, 1, TRUE))
  \/ RingFlag(rings, node.level, FALSE)

ReviewFilteredByRing(node, rings) ==
  IF node.isRoot \/ node.level = 0 THEN TRUE
  ELSE IF node.level = 1 THEN RingFlag(rings, 1, TRUE)
  ELSE RingFlag(rings, node.level, FALSE)

\* is the record a visible link (sentiment enabled, both ends ring-visible)
ReviewLinkVisible(activity, nodeMap, rings, sentiments) ==
  /\ Truthy(activity.author.profileId)
  /\ Truthy(activity.subject.profileId)
  /\ sentiments[activity.data.score]
  /\ Has(nodeMap, activity.author.profileId)
  /\ Has(nodeMap, activity.subject.profileId)
  /\ ReviewRingVisible(Get(nodeMap, activity.author.profileId), rings)
  /\ ReviewRingVisible(Get(nodeMap, activity.subject.profileId), rings)

\* visibleLinksMap: source -> targets in insertion order, without repeats
ReviewVisibleLinksMap(allReviews, nodeMap, rings, sentiments) ==
  Fold(LAMBDA m, activity :
         IF ReviewLinkVisible(activity, nodeMap, rings, sentiments)
         THEN LET sourceId == activity.author.profileId
                  targetId == activity.subject.profileId
                  old == IF sourceId \in DOMAIN m THEN m[sourceId] ELSE <<>>
              IN MapSet(m, sourceId,
                        IF \E i \in 1..Len(old) : old[i] = targetId
                        THEN old ELSE Append(old, targetId))
         ELSE m,
       EmptyMap, allReviews)

ReviewNodesWithVisibleLinks(allReviews, nodeMap, rings, sentiments) ==
  UNION { {allReviews[i].author.profileId, allReviews[i].subject.profileId} :
          i \in { j \in 1..Len(allReviews) :
                   ReviewLinkVisible(allReviews[j], nodeMap, rings, sentiments) } }

\* one iteration of the while loop over the queue
ReviewBfsStep(st, visibleLinksMap, nodesWithVisibleLinks) ==
  IF st.queue = <<>> THEN st
  ELSE LET currentNode == Head(st.queue)
           targets == IF currentNode \in DOMAIN visibleLinksMap
                      THEN visibleLinksMap[currentNode] ELSE <<>>
       IN Fold(LAMBDA acc, targetId :
                 IF targetId \notin acc.reachable /\ targetId \in nodesWithVisibleLinks
                 THEN [reachable |-> acc.reachable \cup {targetId},
                       queue |-> Append(acc.queue, targetId)]
                 ELSE acc,
               [reachable |-> st.reachable, queue |-> Tail(st.queue)], targets)

\* the loop runs until the queue is empty; every id enters the queue at most
\* once, so it ends within one iteration per id that has a visible link
ReviewBfs(queue, reachableNodes, visibleLinksMap, nodesWithVisibleLinks) ==
  Fold(LAMBDA st, i : ReviewBfsStep(st, visibleLinksMap, nodesWithVisibleLinks),
       [reachable |-> reachableNodes, queue |-> queue],
       [i \in 1..Cardinality(nodesWithVisibleLinks) |-> i]).reachable

ReviewReachableNodes(allReviews, nodeMap, rings, sentiments, profileId) ==
  LET hasAnyVisibleSentiment == \E s \in DOMAIN sentiments : sentiments[s]
      nodesWithVisibleLinks == ReviewNodesWithVisibleLinks(allReviews, nodeMap, rings, sentiments)
  IN IF hasAnyVisibleSentiment /\ profileId \in nodesWithVisibleLinks
     THEN ReviewBfs(<<profileId>>, {profileId},
                    ReviewVisibleLinksMap(allReviews, nodeMap, rings, sentiments),
                    nodesWithVisibleLinks)
     ELSE {}

\* nodes handed to the layout
ReviewNodes(allReviews, nodeMap, rings, sentiments, profileId) ==
  LET visibleNodeIds == {nodeMap[i].id : i \in {j \in 1..Len(nodeMap) : ReviewFilteredByRing(nodeMap[j], rings)}}
      hasAnyVisibleSentiment == \E s \in DOMAIN sentiments : sentiments[s]
      finalNodeIds == IF hasAnyVisibleSentiment
                      THEN {id \in ReviewReachableNodes(allReviews, nodeMap, rings, sentiments, profileId) :
                              id \in visibleNodeIds \/ id = profileId}
                      ELSE {}
  IN Slice(Filter(nodeMap, LAMBDA node : node.id \in finalNodeIds), MAX_TOTAL_NODES_REVIEWS)

\* does the record become a link
ReviewLinkKept(activity, nodeMap, nodeIds, rings, sentiments) ==
  /\ Truthy(activity.author.profileId)
  /\ Truthy(activity.subject.profileId)
  /\ activity.author.profileId \in nodeIds
  /\ activity.subject.profileId \in nodeIds
  /\ Has(nodeMap, activity.author.profileId)
  /\ Has(nodeMap, activity.subject.profileId)
  /\ ReviewRingVisible(Get(nodeMap, activity.author.profileId), rings)
  /\ ReviewRingVisible(Get(nodeMap, activity.subject.profileId), rings)
  /\ sentiments[activity.data.score]

ReviewLinks(allReviews, nodeMap, nodes, rings, sentiments) ==
  LET nodeIds == Ids(nodes) IN
  Fold(LAMBDA acc, activity :
         IF ReviewLinkKept(activity, nodeMap, nodeIds, rings, sentiments)
         THEN Append(acc, [source |-> activity.author.profileId,
                           target |-> activity.subject.profileId,
                           sentiment |-> activity.data.score])
         ELSE acc,
       <<>>, allReviews)

RenderReview(allReviews, rings, sentiments, profileId) ==
  LET nodeMap == ReviewNodeMap(allReviews, profileId)
      nodes == ReviewNodes(allReviews, nodeMap, rings, sentiments, profileId)
  IN [nodeMap |-> nodeMap, nodes |-> nodes,
      links |-> ReviewLinks(allReviews, nodeMap, nodes, rings, sentiments)]

\* ========================================================= InvitationMap
\* invitation.user.profileId?.toString() || invitation.user.id.toString()
NodeKey(user) == IF user.profileId # Null THEN user.profileId ELSE user.id

InvitationRootNode(profileId) == [id |-> profileId, isRoot |-> TRUE, level |-> 0]

\* invitations.find(inv => key(inv.user) === senderId): index of the first
\* match, 0 for undefined
FindInvitation(invitations, senderId) ==
  LET hits == {i \in 1..Len(invitations) : NodeKey(invitations[i].user) = senderId}
  IN IF hits = {} THEN 0 ELSE CHOOSE i \in hits : \A j \in hits : i <= j

\* senderInvitation ? senderInvitation.level - 1 : invitation.level - 1
InvitationSenderLevel(invitations, invitation) ==
  LET k == FindInvitation(invitations, invitation.senderProfileId)
  IN IF k # 0 THEN invitations[k].level - 1 ELSE invitation.level - 1

\* first pass, one record
InvitationTrackRecord(invitations, m, invitation, profileId) ==
  LET nodeId == NodeKey(invitation.user)
      m1 == TrackMin(m, nodeId, invitation.level)
      senderId == invitation.senderProfileId
  IN IF senderId # profileId
     THEN TrackMin(m1, senderId, InvitationSenderLevel(invitations, invitation))
     ELSE m1

InvitationUserMinLevels(invitations, profileId) ==
  Fold(LAMBDA m, invitation : InvitationTrackRecord(invitations, m, invitation, profileId),
       EmptyMap, invitations)

\* second pass, invitee side of one record
InvitationProcessInvitee(nodeMap, mins, invitation) ==
  LET nodeId == NodeKey(invitation.user) IN
  IF ~Has(nodeMap, nodeId)
  THEN Put(nodeMap, [id |-> nodeId, isRoot |-> FALSE,
                     level |-> GetOr(mins, nodeId, invitation.level)])
  ELSE LET node == Get(nodeMap, nodeId)
           minLevel == GetOr(mins, nodeId, node.level)
       IN IF minLevel < node.level
          THEN Update(nodeMap, nodeId, [node EXCEPT !.level = minLevel])
          ELSE nodeMap

\* second pass, sender side of one record
InvitationProcessSender(invitations, nodeMap, mins, invitation, profileId) ==
  LET senderId == invitation.senderProfileId IN
  IF ~Has(nodeMap, senderId) /\ senderId # profileId
  THEN Put(nodeMap, [id |-> senderId, isRoot |-> FALSE,
                     level |-> GetOr(mins, senderId,
                                     InvitationSenderLevel(invitations, invitation))])
  ELSE IF Has(nodeMap, senderId) /\ senderId # profileId
  THEN LET node == Get(nodeMap, senderId)
       IN IF senderId \in DOMAIN mins /\ mins[senderId] < node.level
          THEN Update(nodeMap, senderId, [node EXCEPT !.level = mins[senderId]])
          ELSE nodeMap
  ELSE nodeMap

InvitationNodeMap(invitations, profileId) ==
  LET mins == InvitationUserMinLevels(invitations, profileId) IN
  Fold(LAMBDA nm, invitation :
         InvitationProcessSender(invitations,
                                 InvitationProcessInvitee(nm, mins, invitation),
                                 mins, invitation, profileId),
       <<InvitationRootNode(profileId)>>, invitations)

\* links between rendered nodes
InvitationLinks(invitations, nodeIds) ==
  Fold(LAMBDA acc, invitation :
         IF invitation.senderProfileId \in nodeIds /\ NodeKey(invitation.user) \in nodeIds
         THEN Append(acc, [source |-> invitation.senderProfileId,
                           target |-> NodeKey(invitation.user)])
         ELSE acc,
       <<>>, invitations)

RenderInvitation(invitations, profileId) ==
  LET nodeMap == InvitationNodeMap(invitations, profileId)
      nodes == Slice(nodeMap, INVITATION_NODE_LIMIT)
  IN [nodeMap |-> nodeMap, nodes |-> nodes,
      links |-> InvitationLinks(invitations, Ids(nodes))]

\* ------------------------------------------- InvitationMap, earlier revision
\* one iteration of the single pass
EarlierProcessRecord(invitations, nodeMap, invitation, profileId) ==
  LET nodeId == NodeKey(invitation.user)
      nm1 == IF ~Has(nodeMap, nodeId)
             THEN Put(nodeMap, [id |-> nodeId, isRoot |-> FALSE, level |-> invitation.level])
             ELSE nodeMap
      senderId == invitation.senderProfileId
      k == FindInvitation(invitations, senderId)
      senderLevel == IF k # 0 THEN invitations[k].level - 1 ELSE 0
  IN IF ~Has(nm1, senderId) /\ senderId # profileId
     THEN Put(nm1, [id |-> senderId, isRoot |-> FALSE, level |-> senderLevel])
     ELSE nm1

EarlierNodeMap(invitations, profileId) ==
  Fold(LAMBDA nm, invitation : EarlierProcessRecord(invitations, nm, invitation, profileId),
       <<InvitationRootNode(profileId)>>, invitations)

\* links between nodes of the map (no truncation in this revision)
EarlierLinks(invitations, nodeMap) ==
  Fold(LAMBDA acc, invitation :
         IF Has(nodeMap, invitation.senderProfileId) /\ Has(nodeMap, NodeKey(invitation.user))
         THEN Append(acc, [source |-> invitation.senderProfileId,
                           target |-> NodeKey(invitation.user)])
         ELSE acc,
       <<>>, invitations)

RenderInvitationEarlier(invitations, profileId) ==
  LET nodeMap == EarlierNodeMap(invitations, profileId)
  IN [nodeMap |-> nodeMap, nodes |-> nodeMap,
      links |-> EarlierLinks(invitations, nodeMap)]

\* ================================================================ the view
\* nothing drawn yet
NotRendered == [nodeMap |-> <<>>, nodes |-> <<>>, links |-> <<>>]

Render(k, recs, rings, sentiments, profileId) ==
  CASE k = "vouch" -> RenderVouch(recs, rings, profileId)
    [] k = "review" -> RenderReview(recs, rings, sentiments, profileId)
    [] k = "invitation" -> RenderInvitation(recs, profileId)
    [] k = "invitationEarlier" -> RenderInvitationEarlier(recs, profileId)

\* the render effect: returns early while loading or without records (the
\* svg is not mounted then), otherwise clears the svg and rebuilds the graph
RunEffect(k, ld, recs, rings, sentiments, prev, profileId) ==
  IF ld \/ Len(recs) = 0 THEN prev ELSE Render(k, recs, rings, sentiments, profileId)

\* ---------------------------------------------------------------- inputs
IdSet == 1..MaxId
LevelTags == 1..MaxLevel

SeqsUpTo(S, n) == UNION {[1..k -> S] : k \in 0..n}

VouchRecords ==
  {r \in {[authorProfileId |-> a, subjectProfileId |-> b, level |-> l] :
            a \in IdSet, b \in IdSet, l \in LevelTags} :
     r.authorProfileId # r.subjectProfileId}

\* the enumerated reviews carry two of the three sentiments; a review that
\* touches the root is a ring-1 record, a review between two other
\* identities belongs to a deeper ring
ReviewRecords(profileId) ==
  {r \in {[author |-> [profileId |-> a], subject |-> [profileId |-> b],
           data |-> [score |-> sc], level |-> l] :
            a \in IdSet, b \in IdSet, sc \in {"positive", "negative"}, l \in LevelTags} :
     /\ r.author.profileId # r.subject.profileId
     /\ (r.level = 1) <=> (profileId \in {r.author.profileId, r.subject.profileId})}

\* invitees: registered profiles, and one user without a profile whose user
\* id is the key
Invitees ==
  {[profileId |-> a, id |-> a] : a \in IdSet} \cup {[profileId |-> Null, id |-> MaxId]}

InvitationRecords ==
  {r \in {[senderProfileId |-> a, user |-> u, level |-> l] :
            a \in IdSet, u \in Invitees, l \in LevelTags} :
     NodeKey(r.user) # r.senderProfileId}

\* lists long enough to pass the node limit: the root relates to
\* ids 2 .. n + 1
StarSize == MAX_TOTAL_NODES

VouchStarOut(n, profileId) ==
  [i \in 1..n |-> [authorProfileId |-> profileId, subjectProfileId |-> i + 1, level |-> 1]]

VouchStarIn(n, profileId) ==
  [i \in 1..n |-> [authorProfileId |-> i + 1, subjectProfileId |-> profileId, level |-> 1]]

ReviewStarOut(n, profileId) ==
  [i \in 1..n |-> [author |-> [profileId |-> profileId], subject |-> [profileId |-> i + 1],
                   data |-> [score |-> "positive"], level |-> 1]]

InvitationStar(n, profileId) ==
  [i \in 1..n |-> [senderProfileId |-> profileId,
                   user |-> [profileId |-> i + 1, id |-> i + 1], level |-> 1]]

\* every second invitee is invited by an identity that has no record of its own
InvitationPairs(n, profileId) ==
  [i \in 1..n |-> [senderProfileId |-> IF i % 2 = 0 THEN n + i ELSE profileId,
                   user |-> [profileId |-> i + 1, id |-> i + 1],
                   level |-> IF i % 2 = 0 THEN 2 ELSE 1]]

\* record lists a view may hold: fetchVouches / fetchReviews publish what
\* the responses carry and never compare a list with the root the view
\* shows at that moment, so a list need not chain to the root
VouchSnapshots(profileId) ==
  SeqsUpTo(VouchRecords, MaxRecords)
    \cup {VouchStarOut(StarSize, profileId), VouchStarIn(StarSize + 1, profileId)}

ReviewSnapshots(profileId) ==
  SeqsUpTo(ReviewRecords(profileId), MaxRecords) \cup {ReviewStarOut(StarSize, profileId)}

InvitationResponses(profileId) ==
  SeqsUpTo(InvitationRecords, MaxRecords)
    \cup {InvitationStar(StarSize, profileId), InvitationPairs(StarSize + 1, profileId)}

\* ----------------------------------------------------------------- cache
\* A value that may be null is a sequence of length 0 or 1.
CACHE_VERSION == "1.0"
DEFAULT_TTL == 3600000
VOUCHES_TTL == 43200000
OLD_ENTRY_MAX_AGE == 604800000

\* roots the view is shown for (the profileId prop of two searched profiles)
RootIds == {1, 2}

getVouchesCacheKey(pid, type) == <<"cache-vouches", pid, type>>

\* two more searched profiles, each the hub of a large community: one with
\* more neighbours than a ring-1 page keeps and more relationships among
\* them than a snapshot holds, one with a few more neighbours than a fan-out
\* batch of ten
DenseHub == 100
WideHub == 300
HubIds == {DenseHub, WideHub}

\* two profiles with as many vouches and reviews as each other and with no
\* neighbour in common
FirstTwin == 11
SecondTwin == 21
TwinIds == {FirstTwin, SecondTwin}

CacheKeys ==
  {getVouchesCacheKey(pid, type) :
     pid \in RootIds \cup HubIds \cup TwinIds, type \in {"given", "received"}}

EmptyStorage == [k \in CacheKeys |-> <<>>]

\* JSON.stringify(entry): the item text; JSON.parse gives the entry back and
\* throws on a text that is not JSON
Stringify(entry) == [json |-> TRUE, value |-> entry]

Parses(item) == item.json

Parse(item) == item.value

\* a text in storage that JSON.parse rejects
GarbageItem ==
  [json |-> FALSE, value |-> [data |-> [values |-> <<>>], timestamp |-> 0, version |-> ""]]

\* faulty variant of Expired: an entry whose age equals the ttl is expired
ExpiredAtTtl(entry, ttl, t) == t - entry.timestamp >= ttl

Expired(entry, ttl, t) == t - entry.timestamp > ttl

\* getCachedData(key, ttl) at time t: the value returned and the storage left
getCachedData(st, key, ttl, t) ==
  LET cached == st[key]
      removed == [st EXCEPT ![key] = <<>>]
  IN IF cached = <<>> THEN [result |-> <<>>, storage |-> st]
     ELSE IF ~Parses(cached[1]) THEN [result |-> <<>>, storage |-> st]
     ELSE LET entry == Parse(cached[1]) IN
          IF entry.version # CACHE_VERSION THEN [result |-> <<>>, storage |-> removed]
          ELSE IF Expired(entry, ttl, t) THEN [result |-> <<>>, storage |-> removed]
          ELSE [result |-> <<entry.data>>, storage |-> st]

\* clearOldCacheEntries at time t: entries older than seven days and texts
\* that do not parse are removed
clearOldCacheEntries(st, t) ==
  [k \in DOMAIN st |->
     IF st[k] = <<>> THEN <<>>
     ELSE IF ~Parses(st[k][1]) THEN <<>>
     ELSE IF t - Parse(st[k][1]).timestamp > OLD_ENTRY_MAX_AGE THEN <<>>
     ELSE st[k]]

\* how localStorage.setItem answers a setCachedData call: it stores the item;
\* or throws QuotaExceededError and stores on the retry; or throws
\* QuotaExceededError on both attempts; or throws another error, which is
\* not retried
SetItemAnswers == {"stored", "storedOnRetry", "refusedOnRetry", "refused"}

Accepted(answer) == answer \in {"stored", "storedOnRetry"}

\* setCachedData(key, data) at time t: the storage left
setCachedData(st, key, data, t, answer) ==
  LET item == Stringify([data |-> data, timestamp |-> t, version |-> CACHE_VERSION])
  IN CASE answer = "stored" -> [st EXCEPT ![key] = <<item>>]
       [] answer = "storedOnRetry" -> [clearOldCacheEntries(st, t) EXCEPT ![key] = <<item>>]
       [] answer = "refusedOnRetry" -> clearOldCacheEntries(st, t)
       [] OTHER -> st

removeCachedData(st, key) == [st EXCEPT ![key] = <<>>]

\* the record of writes after a step: a key whose item changed is no longer
\* what setCachedData left there
StoredAfter(before, after, was) ==
  [k \in CacheKeys |-> IF after[k] = before[k] THEN was[k] ELSE <<>>]

\* the record of writes after setCachedData(key, data) at time t
StoredAfterSet(before, after, was, key, data, t, answer) ==
  [k \in CacheKeys |->
     IF k = key /\ Accepted(answer) THEN <<[data |-> data, at |-> t]>>
     ELSE IF after[k] = before[k] THEN was[k] ELSE <<>>]

NoRead ==
  [called |-> FALSE, key |-> getVouchesCacheKey(1, "given"), ttl |-> 0, at |-> 0,
   result |-> <<>>, wrote |-> <<>>, item |-> <<>>, left |-> <<>>]

\* ========================================================= remote source
\* What the API holds.  A request for the records of a profile answers with
\* a status; with status 200 the body lists the records the API holds for
\* that profile, up to the limit of the request.
NoError == "null"

THROWN_MESSAGE == "Failed to fetch"

\* Array.from(new Set(list)): first occurrences, in order
Dedupe(seq) ==
  Fold(LAMBDA acc, x : IF \E i \in 1..Len(acc) : acc[i] = x THEN acc ELSE Append(acc, x),
       <<>>, seq)

\* Array.prototype.map
Map(seq, f(_)) == [i \in 1..Len(seq) |-> f(seq[i])]

\* Array.prototype.flat on a list of lists
Flat(lists) == Fold(LAMBDA acc, x : acc \o x, <<>>, lists)

\* { ...record, level }
Tagged(r, level) ==
  [f \in (DOMAIN r) \cup {"level"} |-> IF f = "level" THEN level ELSE r[f]]

Includes(seq, x) == \E i \in 1..Len(seq) : seq[i] = x

Range(seq) == {seq[n] : n \in 1..Len(seq)}

\* limits of fetchVouches
MAX_LEVEL_1_NODES == 50
MAX_TOTAL_VOUCHES == 500
VOUCH_PAGE == 100
VOUCH_INTER2_PAGE == 50
LEVEL_2_FANOUT == 10
MIN_CAPACITY == 5

\* limits of fetchReviews
MAX_LEVEL_1_NODES_REVIEWS == 50
MAX_LEVEL_2_PROFILES_TO_FETCH_REVIEWS == 10
MAX_LEVEL_2_NODES_PER_PROFILE_REVIEWS == 20

\* a response: fetch threw, or answered with a status and a body
Threw == [threw |-> TRUE, status |-> 0, values |-> <<>>]

Answer(status, values) ==
  [threw |-> FALSE, status |-> status, values |-> IF status = 200 THEN values ELSE <<>>]

\* response.ok
Ok(response) == response.status >= 200 /\ response.status <= 299

Ring1Statuses == {200, 404, 500}

\* outcomes of one request of a fan-out batch
BatchOutcomes == {"ok", "http", "threw"}

BatchAnswer(outcome, values) ==
  CASE outcome = "ok" -> Answer(200, values)
    [] outcome = "http" -> Answer(500, values)
    [] OTHER -> Threw

\* the vouches the API holds; the balance is the text the API sends, "" when
\* the field is missing; some balances are zero, negative or not a number.
\* Each of the twin profiles vouches for one profile and has one voucher.
VouchWorld ==
  <<[authorProfileId |-> 1, subjectProfileId |-> 2, balance |-> "1.5"],
    [authorProfileId |-> 3, subjectProfileId |-> 1, balance |-> "1.5"],
    [authorProfileId |-> 2, subjectProfileId |-> 3, balance |-> "1.5"],
    [authorProfileId |-> 2, subjectProfileId |-> 4, balance |-> "1.5"],
    [authorProfileId |-> 3, subjectProfileId |-> 5, balance |-> "1.5"],
    [authorProfileId |-> 4, subjectProfileId |-> 5, balance |-> "1.5"],
    [authorProfileId |-> 1, subjectProfileId |-> 4, balance |-> "0"],
    [authorProfileId |-> 3, subjectProfileId |-> 2, balance |-> ""],
    [authorProfileId |-> 1, subjectProfileId |-> 5, balance |-> "-2"],
    [authorProfileId |-> 4, subjectProfileId |-> 1, balance |-> "abc"],
    [authorProfileId |-> 2, subjectProfileId |-> 5, balance |-> "0.0"],
    [authorProfileId |-> 11, subjectProfileId |-> 12, balance |-> "1.5"],
    [authorProfileId |-> 13, subjectProfileId |-> 11, balance |-> "1.5"],
    [authorProfileId |-> 21, subjectProfileId |-> 22, balance |-> "1.5"],
    [authorProfileId |-> 23, subjectProfileId |-> 21, balance |-> "1.5"]>>

\* the vouches of the community of a hub: the hub vouches for its `degree`
\* neighbours and the first neighbour vouches back; every neighbour vouches
\* for the next `links` neighbours and for two profiles outside the
\* neighbourhood; every outside profile vouches for the next one
VouchCommunity(hub, degree, links) ==
  LET vouch(a, b) == [authorProfileId |-> hub + a, subjectProfileId |-> hub + b,
                      balance |-> "1.5"]
  IN [i \in 1..degree |-> vouch(0, i)]
       \o <<vouch(1, 0)>>
       \o [n \in 1..(degree * links) |->
             LET i == ((n - 1) \div links) + 1
                 j == ((n - 1) % links) + 1
             IN vouch(i, ((i + j - 1) % degree) + 1)]
       \o [n \in 1..(2 * degree) |->
             LET i == ((n - 1) \div 2) + 1 IN vouch(i, degree + i + ((n - 1) % 2))]
       \o [k \in 1..(degree + 1) |-> vouch(degree + k, degree + (k % (degree + 1)) + 1)]

DenseVouchWorld ==
  VouchCommunity(DenseHub, MAX_LEVEL_1_NODES + 2, (MAX_TOTAL_VOUCHES \div MAX_LEVEL_1_NODES) + 2)

WideVouchWorld == VouchCommunity(WideHub, LEVEL_2_FANOUT + 2, 2)

\* the communities share no profile: the vouches that can name pid
VouchHolding(pid) ==
  IF pid < DenseHub THEN VouchWorld
  ELSE IF pid < WideHub THEN DenseVouchWorld ELSE WideVouchWorld

\* body of POST /vouches { authorProfileIds: [pid], limit }
VouchesBy(pid, limit) ==
  Slice(Filter(VouchHolding(pid), LAMBDA v : v.authorProfileId = pid), limit)

\* body of POST /vouches { subjectProfileIds: [pid], limit }
VouchesFor(pid, limit) ==
  Slice(Filter(VouchHolding(pid), LAMBDA v : v.subjectProfileId = pid), limit)

\* ======================================================== fetchVouches

\* Number.parseFloat of the balance texts the API sends, in tenths; NaN is
\* the empty sequence, a number n is <<n>>
ParseFloatTenths(text) ==
  CASE text = "1.5" -> <<15>>
    [] text = "0" -> <<0>>
    [] text = "0.0" -> <<0>>
    [] text = "-2" -> <<0 - 20>>
    [] OTHER -> <<>>

\* faulty variant of isVouchFunded: every vouch with a balance text counts
isVouchFundedAnyText(vouch) == vouch.balance # ""

\* !vouch.balance is true for the missing field and for ""; NaN > 0 is false
isVouchFunded(vouch) ==
  IF vouch.balance = "" THEN FALSE
  ELSE LET balance == ParseFloatTenths(vouch.balance)
       IN balance # <<>> /\ balance[1] > 0

\* push while the list is below the limit
PushBelow(list, items, limit, level) ==
  Fold(LAMBDA acc, x : IF Len(acc) >= limit THEN acc ELSE Append(acc, Tagged(x, level)),
       list, items)

VouchLevel1Given(givenData) ==
  Slice(Filter(givenData.values, isVouchFunded), MAX_LEVEL_1_NODES)

VouchLevel1Received(receivedData) ==
  Slice(Filter(receivedData.values, isVouchFunded), MAX_LEVEL_1_NODES)

\* faulty variant of VouchRing1Snapshot: the received list is left out
VouchRing1SnapshotGivenOnly(givenData, receivedData) ==
  PushBelow(<<>>, VouchLevel1Given(givenData), MAX_TOTAL_NODES, 1)

\* allVouchesWithLevels: the ring-1 snapshot
VouchRing1Snapshot(givenData, receivedData) ==
  PushBelow(PushBelow(<<>>, VouchLevel1Given(givenData), MAX_TOTAL_NODES, 1),
            VouchLevel1Received(receivedData), MAX_TOTAL_NODES, 1)

VouchLevel1ProfileIds(givenData, receivedData, pid) ==
  Filter(Dedupe(Map(VouchLevel1Given(givenData), LAMBDA v : v.subjectProfileId)
                  \o Map(VouchLevel1Received(receivedData), LAMBDA v : v.authorProfileId)),
         LAMBDA id : id # pid)

\* one request of the inter-ring-1 batch
VouchInter1Result(response, level1ProfileIds) ==
  IF response.threw \/ ~Ok(response) THEN <<>>
  ELSE Map(Filter(response.values,
                  LAMBDA v : isVouchFunded(v) /\ Includes(level1ProfileIds, v.subjectProfileId)),
           LAMBDA v : Tagged(v, 1))

\* level1NodeIds, in insertion order
VouchLevel1NodeIds(allLevel1Vouches, pid) ==
  Dedupe(Fold(LAMBDA acc, v :
                (IF v.authorProfileId # pid THEN Append(acc, v.authorProfileId) ELSE acc)
                  \o (IF v.subjectProfileId # pid THEN <<v.subjectProfileId>> ELSE <<>>),
              <<>>, allLevel1Vouches))

VouchRemainingCapacity(level1NodeIds) == MAX_TOTAL_NODES - Len(level1NodeIds) - 1

VouchLevel2ProfileIds(level1NodeIds) == Slice(level1NodeIds, LEVEL_2_FANOUT)

\* one request of the ring-2 batch
VouchLevel2Result(response, level1ProfileIds, pid) ==
  IF response.threw \/ ~Ok(response) THEN <<>>
  ELSE Map(Filter(response.values,
                  LAMBDA v : /\ ~(Includes(level1ProfileIds, v.subjectProfileId)
                                    \/ v.subjectProfileId = pid)
                             /\ isVouchFunded(v)),
           LAMBDA v : Tagged(v, 2))

VouchLevel2NodeIds(level2Vouches, level1ProfileIds, pid) ==
  Dedupe(Map(Filter(level2Vouches,
                    LAMBDA v : v.subjectProfileId # pid
                                 /\ ~Includes(level1ProfileIds, v.subjectProfileId)),
             LAMBDA v : v.subjectProfileId))

\* one request of the inter-ring-2 batch
VouchInter2Result(response, level2NodeIds) ==
  IF response.threw \/ ~Ok(response) THEN <<>>
  ELSE Map(Filter(response.values,
                  LAMBDA v : isVouchFunded(v) /\ Includes(level2NodeIds, v.subjectProfileId)),
           LAMBDA v : Tagged(v, 2))

\* ======================================================== fetchReviews

\* the reviews the API holds; one review is about a user without a profile;
\* each of the twin profiles has reviewed one profile and has one reviewer
ReviewWorld ==
  LET review(a, b, score) == [author |-> [profileId |-> a], subject |-> [profileId |-> b],
                              data |-> [score |-> score]]
  IN <<review(1, 2, "positive"), review(3, 1, "negative"), review(2, 4, "positive"),
       review(5, 2, "neutral"), review(3, Null, "positive"),
       review(11, 12, "positive"), review(13, 11, "negative"),
       review(21, 22, "positive"), review(23, 21, "negative")>>

\* the reviews of the community of a hub: the hub reviews more profiles
\* than a ring-1 page holds and as many others review the hub; each of the
\* first neighbours reviews more profiles than a ring-2 page holds
ReviewCommunity(hub) ==
  LET page == MAX_LEVEL_1_NODES_REVIEWS + 2
      each == MAX_LEVEL_2_NODES_PER_PROFILE_REVIEWS + 2
      busy == MAX_LEVEL_2_PROFILES_TO_FETCH_REVIEWS + 2
      review(a, b, score) == [author |-> [profileId |-> hub + a],
                              subject |-> [profileId |-> hub + b], data |-> [score |-> score]]
  IN [i \in 1..page |-> review(0, i, "positive")]
       \o [i \in 1..page |-> review(page + i, 0, "negative")]
       \o [n \in 1..(busy * each) |->
             LET i == ((n - 1) \div each) + 1
                 j == ((n - 1) % each) + 1
             IN review(i, i + j, "neutral")]

\* the communities share no profile: the reviews that can name pid
ReviewHolding(pid) ==
  IF pid < DenseHub THEN ReviewWorld
  ELSE IF pid < WideHub THEN ReviewCommunity(DenseHub) ELSE ReviewCommunity(WideHub)

\* body of POST /activities/profile/given { userkey, filter: ["review"], limit }
ReviewsBy(pid, limit) ==
  Slice(Filter(ReviewHolding(pid), LAMBDA a : a.author.profileId = pid), limit)

\* body of POST /activities/profile/received
ReviewsFor(pid, limit) ==
  Slice(Filter(ReviewHolding(pid), LAMBDA a : a.subject.profileId = pid), limit)

\* the two forEach loops over the ring-1 bodies: allReviewsWithLevels and
\* profileIdsToProcess, which starts as [profileId]
ReviewRing1(givenValues, receivedValues, pid) ==
  LET push(acc, a, id) ==
        IF Len(acc.all) >= MAX_TOTAL_NODES_REVIEWS THEN acc
        ELSE IF Truthy(id)
             THEN [all |-> Append(acc.all, Tagged(a, 1)),
                   ids |-> IF Includes(acc.ids, id) THEN acc.ids ELSE Append(acc.ids, id)]
             ELSE acc
      pushGiven(acc, a) == push(acc, a, a.subject.profileId)
      pushReceived(acc, a) == push(acc, a, a.author.profileId)
  IN Fold(pushReceived, Fold(pushGiven, [all |-> <<>>, ids |-> <<pid>>], givenValues),
          receivedValues)

ReviewRing1Snapshot(givenValues, receivedValues, pid) ==
  ReviewRing1(givenValues, receivedValues, pid).all

ReviewProfileIdsToProcess(givenValues, receivedValues, pid) ==
  ReviewRing1(givenValues, receivedValues, pid).ids

ReviewLevel2ProfileIds(profileIdsToProcess) ==
  SubSeq(profileIdsToProcess, 2,
         IF Len(profileIdsToProcess) < MAX_LEVEL_2_PROFILES_TO_FETCH_REVIEWS + 1
         THEN Len(profileIdsToProcess) ELSE MAX_LEVEL_2_PROFILES_TO_FETCH_REVIEWS + 1)

\* one profile of the ring-2 batch: Promise.all of its two requests rejects
\* when one of them throws, and the catch returns []
ReviewLevel2Result(given, received) ==
  IF given.threw \/ received.threw THEN <<>>
  ELSE (IF Ok(given)
        THEN Map(Filter(Slice(given.values, MAX_LEVEL_2_NODES_PER_PROFILE_REVIEWS),
                        LAMBDA a : Truthy(a.subject.profileId)),
                 LAMBDA a : Tagged(a, 2))
        ELSE <<>>)
         \o (IF Ok(received)
             THEN Map(Filter(Slice(received.values, MAX_LEVEL_2_NODES_PER_PROFILE_REVIEWS),
                             LAMBDA a : Truthy(a.author.profileId)),
                      LAMBDA a : Tagged(a, 2))
             ELSE <<>>)

\* faulty variant of ReviewLevel2Reviews: the results are not cut
ReviewLevel2ReviewsUncut(level2Results, allReviewsWithLevels) == Flat(level2Results)

\* level2Results.flat().slice(0, MAX_TOTAL_NODES_REVIEWS - allReviewsWithLevels.length)
ReviewLevel2Reviews(level2Results, allReviewsWithLevels) ==
  Slice(Flat(level2Results), MAX_TOTAL_NODES_REVIEWS - Len(allReviewsWithLevels))

\* ======================================================= fetchInvitees
\* the invitation tree the API answers with for a profile; a hub has invited
\* more users than the record limit
InvitationWorld(pid) ==
  IF pid \in HubIds
  THEN [i \in 1..(INVITATION_RECORD_LIMIT + 1) |->
          [senderProfileId |-> pid, user |-> [profileId |-> pid + i, id |-> pid + i],
           level |-> 1]]
  ELSE IF pid = 1
  THEN <<[senderProfileId |-> 1, user |-> [profileId |-> 2, id |-> 2], level |-> 1],
         [senderProfileId |-> 2, user |-> [profileId |-> 3, id |-> 3], level |-> 2]>>
  ELSE <<[senderProfileId |-> pid, user |-> [profileId |-> 3, id |-> 3], level |-> 1]>>

NO_PROFILE_MESSAGE == "Profile ID not available"
NO_INVITATIONS_MESSAGE == "No invitations found for this user"
INVALID_FORMAT_MESSAGE == "Invalid response format"
VOUCHES_FAILED_MESSAGE == "Failed to fetch vouches"
REVIEWS_FAILED_MESSAGE == "Failed to fetch reviews"

\* `Failed to fetch invitations: ${response.statusText}`
INVITATIONS_FAILED_500 == "Failed to fetch invitations: Internal Server Error"

InvitationFailedMessage(response) ==
  IF response.status = 404 THEN NO_INVITATIONS_MESSAGE ELSE INVITATIONS_FAILED_500

\* what the view returns: the spinner while loading, else the error, else
\* the empty message, else the graph
Shown(ld, err, recs) ==
  IF ld THEN "spinner"
  ELSE IF err # NoError THEN "error"
  ELSE IF Len(recs) = 0 THEN "empty" ELSE "graph"

\* ------------------------------------------------------ the force layout
\* d3.forceSimulation(nodes), with the drag behaviour attached to its
\* nodes: whether simulation.stop() was called on it, its alpha target in
\* tenths, the ids of its nodes, the nodes that have a fixed position (fx,
\* fy), and the drag gestures under way
NewSimulation(nodes) ==
  [stopped |-> FALSE, alphaTarget |-> 0, nodes |-> Ids(nodes), fixed |-> {}, gestures |-> {}]

\* faulty variant of EffectRun: the effect returns no cleanup function
EffectRunNoCleanup(sims, draws, nodes) ==
  IF draws THEN Append(sims, NewSimulation(nodes)) ELSE sims

\* one run of the render effect after the first.  React first calls the
\* cleanup the run before returned, which stops the simulation that run
\* created (a run that returned early created none and returned no cleanup);
\* then the effect returns early, or clears the svg and creates a simulation.
\* A stopped simulation that no gesture refers to is unreachable and is not
\* kept.
EffectRun(sims, draws, nodes) ==
  LET cleaned == [i \in 1..Len(sims) |->
                    IF i = Len(sims) THEN [sims[i] EXCEPT !.stopped = TRUE] ELSE sims[i]]
      kept == Filter(cleaned, LAMBDA simulation :
                                ~simulation.stopped \/ simulation.gestures # {})
  IN IF draws THEN Append(kept, NewSimulation(nodes)) ELSE kept

\* the dependency list of the render effect; React compares the entries with
\* Object.is, the model compares a list by its records
EffectDeps(k, recs, ld, pid, fullscreen, th, rings, sentiments) ==
  CASE k = "vouch" -> <<Len(recs), ld, pid, fullscreen, th, rings>>
    [] k = "review" -> <<Len(recs), ld, pid, fullscreen, th, rings, sentiments>>
    [] k = "invitation" -> <<recs, ld, pid, fullscreen>>
    [] k = "invitationEarlier" -> <<recs, ld, pid>>

Deps ==
  EffectDeps(kind, records, loading, root, isFullscreen, theme, visibleRings, visibleSentiments)

\* one commit.  view: the graph in the svg and the simulations before it;
\* changed: an entry of the dependency list differs from the commit before;
\* shown: the view returns the graph, so the svg is mounted; graph: what the
\* effect draws from the state of this commit.
Committed(view, changed, shown, graph) ==
  IF ~shown
  THEN [rendered |-> NotRendered,
        simulations |-> IF changed THEN EffectRun(view.simulations, FALSE, <<>>)
                        ELSE view.simulations]
  ELSE IF changed
  THEN [rendered |-> graph, simulations |-> EffectRun(view.simulations, TRUE, graph.nodes)]
  ELSE view

\* the commit that follows the state changes of a step of a call, which
\* leaves the props and the controls as they are
Commit ==
  LET after == Committed([rendered |-> rendered, simulations |-> simulations],
                         Deps' # Deps, Shown(loading', error', records') = "graph",
                         Render(kind, records', visibleRings, visibleSentiments, root))
  IN /\ rendered' = after.rendered
     /\ simulations' = after.simulations

\* --------------------------------------------------------------- actions
Init ==
  /\ kind \in Kinds
  /\ loading = TRUE
  /\ records = <<>>
  /\ visibleRings = [r \in 1..3 |-> r = 1]
  /\ visibleSentiments = [s \in Sentiments |-> TRUE]
  /\ rendered = NotRendered
  /\ isFullscreen = FALSE
  /\ theme = "dark"
  /\ simulations = <<>>
  /\ unmounted = FALSE
  /\ root = FirstProfile
  /\ error = NoError
  /\ inflight = <<>>
  /\ storage = EmptyStorage
  /\ now = 0
  /\ lastRead = NoRead
  /\ stored = [k \in CacheKeys |-> <<>>]

\* fetchInvitees, success path: the response list is stored (cut to 200
\* records in the current revision), loading ends, the effect runs
InvitationFetched ==
  /\ kind \in {"invitation", "invitationEarlier"}
  /\ ~unmounted
  /\ loading
  /\ \E values \in InvitationResponses(root) :
        records' = IF kind = "invitation" THEN Slice(values, INVITATION_RECORD_LIMIT) ELSE values
  /\ loading' = FALSE
  /\ rendered' = RunEffect(kind, loading', records', visibleRings, visibleSentiments, rendered,
                           root)
  /\ simulations' = EffectRun(simulations, Shown(loading', error, records') = "graph",
                              rendered'.nodes)
  /\ UNCHANGED <<kind, visibleRings, visibleSentiments, isFullscreen, theme, unmounted>>
  /\ UNCHANGED <<fetchVars, cacheVars>>

\* fetchVouches: setAllVouches(snapshot); setLoading(false)
VouchesPublished ==
  /\ kind = "vouch"
  /\ ~unmounted
  /\ loading
  /\ \E snapshot \in VouchSnapshots(root) : records' = snapshot
  /\ loading' = FALSE
  /\ rendered' = RunEffect(kind, loading', records', visibleRings, visibleSentiments, rendered,
                           root)
  /\ simulations' = EffectRun(simulations, Shown(loading', error, records') = "graph",
                              rendered'.nodes)
  /\ UNCHANGED <<kind, visibleRings, visibleSentiments, isFullscreen, theme, unmounted>>
  /\ UNCHANGED <<fetchVars, cacheVars>>

\* fetchReviews: setAllReviews(snapshot); setLoading(false)
ReviewsPublished ==
  /\ kind = "review"
  /\ ~unmounted
  /\ loading
  /\ \E snapshot \in ReviewSnapshots(root) : records' = snapshot
  /\ loading' = FALSE
  /\ rendered' = RunEffect(kind, loading', records', visibleRings, visibleSentiments, rendered,
                           root)
  /\ simulations' = EffectRun(simulations, Shown(loading', error, records') = "graph",
                              rendered'.nodes)
  /\ UNCHANGED <<kind, visibleRings, visibleSentiments, isFullscreen, theme, unmounted>>
  /\ UNCHANGED <<fetchVars, cacheVars>>

\* faulty variant of ToggleRing: turning ring 3 on leaves ring 2 as it is
ToggleRingAlone(ring) ==
  /\ kind \in {"vouch", "review"}
  /\ ~unmounted
  /\ Shown(loading, error, records) = "graph"
  /\ IF ring = 1
     THEN UNCHANGED <<visibleRings, rendered, simulations>>
     ELSE /\ visibleRings' = [visibleRings EXCEPT ![ring] = ~@]
          /\ rendered' = RunEffect(kind, loading, records, visibleRings',
                                   visibleSentiments, rendered, root)
          /\ simulations' = EffectRun(simulations, TRUE, rendered'.nodes)
  /\ UNCHANGED <<kind, loading, records, visibleSentiments, isFullscreen, theme, unmounted>>
  /\ UNCHANGED <<fetchVars, cacheVars>>

\* the ring buttons exist once the view shows a graph
ToggleRing(ring) ==
  /\ kind \in {"vouch", "review"}
  /\ ~unmounted
  /\ Shown(loading, error, records) = "graph"
  /\ IF ring = 1
     THEN UNCHANGED <<visibleRings, rendered, simulations>>
     ELSE /\ visibleRings' =
               [r \in 1..3 |->
                  IF r = ring THEN ~visibleRings[ring]
                  ELSE IF r = 2 /\ ring = 3 /\ ~visibleRings[2] THEN TRUE
                  ELSE visibleRings[r]]
          /\ rendered' = RunEffect(kind, loading, records, visibleRings',
                                   visibleSentiments, rendered, root)
          /\ simulations' = EffectRun(simulations, TRUE, rendered'.nodes)
  /\ UNCHANGED <<kind, loading, records, visibleSentiments, isFullscreen, theme, unmounted>>
  /\ UNCHANGED <<fetchVars, cacheVars>>

ToggleSentiment(sentiment) ==
  /\ kind = "review"
  /\ ~unmounted
  /\ Shown(loading, error, records) = "graph"
  /\ visibleSentiments' = [visibleSentiments EXCEPT ![sentiment] = ~@]
  /\ rendered' = RunEffect(kind, loading, records, visibleRings, visibleSentiments', rendered,
                           root)
  /\ simulations' = EffectRun(simulations, TRUE, rendered'.nodes)
  /\ UNCHANGED <<kind, loading, records, visibleRings, isFullscreen, theme, unmounted>>
  /\ UNCHANGED <<fetchVars, cacheVars>>

Next ==
  \/ InvitationFetched
  \/ VouchesPublished
  \/ ReviewsPublished
  \/ \E ring \in 1..3 : ToggleRing(ring)
  \/ \E sentiment \in Sentiments : ToggleSentiment(sentiment)

Spec == Init /\ [][Next]_vars

\* ------------------------------------------------------------ the cache
\* Calls of the cache functions on the two entries of one profile, at the
\* instants of a clock, next to another writer of localStorage.
MaxInstants == 4    \* instants of the clock that occur

\* instants a call may happen at, the first MaxInstants of them occur
ClockInstants ==
  <<0, DEFAULT_TTL, DEFAULT_TTL + 1, OLD_ENTRY_MAX_AGE + 1, VOUCHES_TTL, VOUCHES_TTL + 1,
    1, OLD_ENTRY_MAX_AGE + 2, OLD_ENTRY_MAX_AGE + DEFAULT_TTL + 2>>

Instants ==
  {ClockInstants[i] :
     i \in 1..(IF MaxInstants < Len(ClockInstants) THEN MaxInstants ELSE Len(ClockInstants))}

Ttls == {DEFAULT_TTL, VOUCHES_TTL}

ProfileCacheKeys(profileId) ==
  {getVouchesCacheKey(profileId, type) : type \in {"given", "received"}}

\* values the vouch fetcher caches: a response body
CachedBodies(profileId) == {[values |-> VouchesBy(profileId, VOUCH_PAGE)], [values |-> <<>>]}

\* an entry written by an earlier revision of the cache
OldVersionItem(t) ==
  Stringify([data |-> [values |-> <<>>], timestamp |-> t, version |-> "0.9"])

CacheInit ==
  /\ kind = "vouch"
  /\ loading = TRUE
  /\ records = <<>>
  /\ visibleRings = [r \in 1..3 |-> r = 1]
  /\ visibleSentiments = [s \in Sentiments |-> TRUE]
  /\ rendered = NotRendered
  /\ isFullscreen = FALSE
  /\ theme = "dark"
  /\ simulations = <<>>
  /\ unmounted = FALSE
  /\ root = FirstProfile
  /\ error = NoError
  /\ inflight = <<>>
  /\ storage = EmptyStorage
  /\ now = 0
  /\ lastRead = NoRead
  /\ stored = [k \in CacheKeys |-> <<>>]

\* Date.now() advances
Tick ==
  /\ \E t \in Instants : t > now /\ now' = t
  /\ UNCHANGED <<kind, loading, records, viewVars, layoutVars, fetchVars, storage, lastRead, stored>>

CacheSet(key, data, answer) ==
  /\ storage' = setCachedData(storage, key, data, now, answer)
  /\ stored' = StoredAfterSet(storage, storage', stored, key, data, now, answer)
  /\ UNCHANGED <<kind, loading, records, viewVars, layoutVars, fetchVars, now, lastRead>>

CacheGet(key, ttl) ==
  LET read == getCachedData(storage, key, ttl, now) IN
  /\ storage' = read.storage
  /\ lastRead' = [called |-> TRUE, key |-> key, ttl |-> ttl, at |-> now,
                  result |-> read.result, wrote |-> stored[key],
                  item |-> storage[key], left |-> read.storage[key]]
  /\ stored' = StoredAfter(storage, storage', stored)
  /\ UNCHANGED <<kind, loading, records, viewVars, layoutVars, fetchVars, now>>

CacheRemove(key) ==
  /\ storage[key] # <<>>
  /\ storage' = removeCachedData(storage, key)
  /\ stored' = StoredAfter(storage, storage', stored)
  /\ UNCHANGED <<kind, loading, records, viewVars, layoutVars, fetchVars, now, lastRead>>

\* another script of the page, or an earlier revision, writes the key
ForeignWrite(key, item) ==
  /\ storage[key] # <<item>>
  /\ storage' = [storage EXCEPT ![key] = <<item>>]
  /\ stored' = StoredAfter(storage, storage', stored)
  /\ UNCHANGED <<kind, loading, records, viewVars, layoutVars, fetchVars, now, lastRead>>

CacheNext ==
  \/ Tick
  \/ \E key \in ProfileCacheKeys(root), data \in CachedBodies(root), answer \in SetItemAnswers :
        CacheSet(key, data, answer)
  \/ \E key \in ProfileCacheKeys(root), ttl \in Ttls : CacheGet(key, ttl)
  \/ \E key \in ProfileCacheKeys(root) : CacheRemove(key)
  \/ \E key \in ProfileCacheKeys(root) : ForeignWrite(key, GarbageItem)
  \/ \E key \in ProfileCacheKeys(root) : ForeignWrite(key, OldVersionItem(now))

CacheSpec == CacheInit /\ [][CacheNext]_vars

\* ------------------------------------------------------ the fetch effects
\* A call of fetchInvitees / fetchVouches / fetchReviews runs up to its next
\* await in one step.  The effect starts a call when the view mounts and
\* when the profileId prop changes; nothing stops the calls started before.
MaxFetches == 2     \* calls of the fetch procedure that one view starts

FetchNow == VOUCHES_TTL + 1

NewCall(pid) ==
  [pid |-> pid, pc |-> "ring1", cached |-> FALSE, fate |-> "running", statuses |-> <<>>,
   given |-> <<>>, received |-> <<>>, l1 |-> <<>>, l2 |-> <<>>,
   batch |-> "none", last |-> <<>>]

\* the call has returned
Returned(call, fate) == [call EXCEPT !.pc = "returned", !.fate = fate]

\* the outcomes of the requests of the batch that has settled
Settled(call, batch, outcomes) == [call EXCEPT !.batch = batch, !.last = outcomes]

Running(i) == i \in 1..Len(inflight) /\ inflight[i].pc # "returned"

StatusesOf(given, received) == <<given.status, received.status>>

\* localStorage when the view mounts: nothing, or entries an earlier visit
\* of profile 1 left (written at instant 1, or at instant 0 and expired by
\* now, or by an earlier revision of the cache)
CachedEntry(type, t, version) ==
  Stringify([data |-> [values |-> IF type = "given" THEN VouchesBy(1, VOUCH_PAGE)
                                  ELSE VouchesFor(1, VOUCH_PAGE)],
             timestamp |-> t, version |-> version])

StorageWith(givenItem, receivedItem) ==
  [k \in CacheKeys |->
     IF k = getVouchesCacheKey(1, "given") THEN givenItem
     ELSE IF k = getVouchesCacheKey(1, "received") THEN receivedItem
     ELSE <<>>]

MountStorages ==
  {EmptyStorage,
   StorageWith(<<CachedEntry("given", 1, CACHE_VERSION)>>,
               <<CachedEntry("received", 1, CACHE_VERSION)>>),
   StorageWith(<<CachedEntry("given", 1, CACHE_VERSION)>>, <<>>),
   StorageWith(<<CachedEntry("given", 0, CACHE_VERSION)>>,
               <<CachedEntry("received", 1, CACHE_VERSION)>>),
   StorageWith(<<CachedEntry("given", 1, CACHE_VERSION)>>,
               <<CachedEntry("received", 1, "0.9")>>)}

FetchInit ==
  /\ kind \in Kinds
  /\ loading = TRUE
  /\ records = <<>>
  /\ visibleRings = [r \in 1..3 |-> r = 1]
  /\ visibleSentiments = [s \in Sentiments |-> TRUE]
  /\ rendered = NotRendered
  /\ isFullscreen = FALSE
  /\ theme = "dark"
  /\ simulations = <<>>
  /\ unmounted = FALSE
  /\ root \in RootIds \cup {Null}
  /\ error = NoError
  /\ inflight = <<>>
  /\ storage \in (IF kind = "vouch" THEN MountStorages ELSE {EmptyStorage})
  /\ now = FetchNow
  /\ lastRead = NoRead
  /\ stored = [k \in CacheKeys |-> <<>>]

\* faulty variant of CacheUsable: one cached list is enough
CacheUsableEither(cachedGiven, cachedReceived) == cachedGiven # <<>> \/ cachedReceived # <<>>

\* if (cachedGiven && cachedReceived)
CacheUsable(cachedGiven, cachedReceived) == cachedGiven # <<>> /\ cachedReceived # <<>>

\* (data.values || []) of a cached body that may be null
ValuesOf(cachedBody) == IF cachedBody = <<>> THEN <<>> ELSE cachedBody[1].values

\* the body of the effect up to the first await, for the prop value pid
Begin(pid) ==
  IF ~Truthy(pid)
  THEN /\ error' = NO_PROFILE_MESSAGE
       /\ loading' = FALSE
       /\ inflight' = Append(inflight, Returned(NewCall(pid), "missingId"))
       /\ UNCHANGED <<records, storage>>
  ELSE IF kind # "vouch"
  THEN /\ loading' = TRUE
       /\ error' = NoError
       /\ inflight' = Append(inflight, NewCall(pid))
       /\ UNCHANGED <<records, storage>>
  ELSE LET readGiven == getCachedData(storage, getVouchesCacheKey(pid, "given"),
                                      VOUCHES_TTL, now)
           readReceived == getCachedData(readGiven.storage,
                                         getVouchesCacheKey(pid, "received"), VOUCHES_TTL, now)
       IN /\ storage' = readReceived.storage
          /\ IF CacheUsable(readGiven.result, readReceived.result)
             THEN /\ records' = VouchRing1Snapshot([values |-> ValuesOf(readGiven.result)],
                                                   [values |-> ValuesOf(readReceived.result)])
                  /\ loading' = FALSE
                  /\ inflight' = Append(inflight,
                        [NewCall(pid) EXCEPT !.pc = "inter1", !.cached = TRUE,
                                             !.given = ValuesOf(readGiven.result),
                                             !.received = ValuesOf(readReceived.result)])
                  /\ UNCHANGED error
             ELSE /\ loading' = TRUE
                  /\ error' = NoError
                  /\ inflight' = Append(inflight, NewCall(pid))
                  /\ UNCHANGED records

\* the mount effect has set mounted, the fetch effect runs for the first time
Mount ==
  /\ ~unmounted
  /\ Len(inflight) = 0
  /\ Begin(root)
  /\ UNCHANGED <<kind, settingVars, unmounted, root, now, lastRead, stored>>
  /\ Commit

\* the page passes another profileId.  In the commit that brings the new prop
\* the fetch effect runs again and the render effect, which follows it in the
\* component, runs with the state of before; the state changes of the fetch
\* effect make the next commit.
RootChanged(pid) ==
  /\ ~unmounted
  /\ Len(inflight) > 0
  /\ Len(inflight) < MaxFetches
  /\ pid # root
  /\ root' = pid
  /\ Begin(pid)
  /\ UNCHANGED <<kind, settingVars, unmounted, now, lastRead, stored>>
  /\ LET first == Committed([rendered |-> rendered, simulations |-> simulations], TRUE,
                            Shown(loading, error, records) = "graph",
                            Render(kind, records, visibleRings, visibleSentiments, pid))
         after == Committed(first, Deps' # EffectDeps(kind, records, loading, pid, isFullscreen,
                                                      theme, visibleRings, visibleSentiments),
                            Shown(loading', error', records') = "graph",
                            Render(kind, records', visibleRings, visibleSentiments, pid))
     IN /\ rendered' = after.rendered
        /\ simulations' = after.simulations

\* fetchInvitees after the response; wellFormed: json.values is an array
InvitationSettled(i, response, wellFormed) ==
  /\ ~unmounted
  /\ kind \in {"invitation", "invitationEarlier"}
  /\ Running(i)
  /\ loading' = FALSE
  /\ IF response.threw
     THEN /\ error' = THROWN_MESSAGE
          /\ inflight' = [inflight EXCEPT ![i] = Returned(@, "threw")]
          /\ UNCHANGED records
     ELSE IF ~Ok(response)
     THEN /\ error' = InvitationFailedMessage(response)
          /\ inflight' = [inflight EXCEPT ![i] =
                            [Returned(@, "ring1Failed") EXCEPT !.statuses = <<response.status>>]]
          /\ UNCHANGED records
     ELSE IF ~wellFormed
     THEN /\ error' = INVALID_FORMAT_MESSAGE
          /\ inflight' = [inflight EXCEPT ![i] = Returned(@, "invalid")]
          /\ UNCHANGED records
     ELSE /\ records' = IF kind = "invitation"
                        THEN Slice(response.values, INVITATION_RECORD_LIMIT)
                        ELSE response.values
          /\ inflight' = [inflight EXCEPT ![i] = Returned(@, "done")]
          /\ UNCHANGED error
  /\ UNCHANGED <<kind, settingVars, unmounted, root, cacheVars>>
  /\ Commit

\* fetchVouches after the two ring-1 responses (the second request is sent
\* when the first has answered; a throw of either reaches the same catch)
VouchRing1Settled(i, given, received, answerGiven, answerReceived) ==
  /\ ~unmounted
  /\ kind = "vouch"
  /\ Running(i)
  /\ inflight[i].pc = "ring1"
  /\ IF given.threw \/ received.threw
     THEN /\ error' = THROWN_MESSAGE
          /\ loading' = FALSE
          /\ inflight' = [inflight EXCEPT ![i] = Returned(@, "threw")]
          /\ UNCHANGED <<records, storage>>
     ELSE IF ~Ok(given) \/ ~Ok(received)
     THEN /\ error' = VOUCHES_FAILED_MESSAGE
          /\ inflight' = [inflight EXCEPT ![i] =
                            [Returned(@, "ring1Failed") EXCEPT
                               !.statuses = StatusesOf(given, received)]]
          /\ UNCHANGED <<loading, records, storage>>
     ELSE LET pid == inflight[i].pid
              afterGiven == setCachedData(storage, getVouchesCacheKey(pid, "given"),
                                          [values |-> given.values], now, answerGiven)
          IN /\ storage' = setCachedData(afterGiven, getVouchesCacheKey(pid, "received"),
                                         [values |-> received.values], now, answerReceived)
             /\ records' = VouchRing1Snapshot(given, received)
             /\ loading' = FALSE
             /\ inflight' = [inflight EXCEPT ![i] =
                               [@ EXCEPT !.pc = "inter1", !.given = given.values,
                                         !.received = received.values,
                                         !.statuses = StatusesOf(given, received)]]
             /\ UNCHANGED error
  /\ UNCHANGED <<kind, settingVars, unmounted, root, now, lastRead, stored>>
  /\ Commit

\* level1ProfileIds of a call past the ring-1 stage
CallLevel1ProfileIds(call) ==
  VouchLevel1ProfileIds([values |-> call.given], [values |-> call.received], call.pid)

\* fetchVouches after the inter-ring-1 batch has settled
VouchInter1Settled(i, outcomes) ==
  /\ ~unmounted
  /\ kind = "vouch"
  /\ Running(i)
  /\ inflight[i].pc = "inter1"
  /\ LET call == inflight[i]
         level1ProfileIds == CallLevel1ProfileIds(call)
         results == [n \in 1..Len(level1ProfileIds) |->
                       VouchInter1Result(
                         BatchAnswer(outcomes[n], VouchesBy(level1ProfileIds[n], VOUCH_PAGE)),
                         level1ProfileIds)]
         allLevel1Vouches ==
           VouchRing1Snapshot([values |-> call.given], [values |-> call.received])
             \o Flat(results)
         level1NodeIds == VouchLevel1NodeIds(allLevel1Vouches, call.pid)
     IN /\ records' = Slice(allLevel1Vouches, MAX_TOTAL_VOUCHES)
        /\ IF VouchRemainingCapacity(level1NodeIds) <= MIN_CAPACITY
           THEN /\ loading' = FALSE
                /\ inflight' = [inflight EXCEPT ![i] =
                                  [Settled(Returned(@, "done"), "inter1", outcomes)
                                     EXCEPT !.l1 = allLevel1Vouches]]
           ELSE /\ inflight' = [inflight EXCEPT ![i] =
                                  [Settled(@, "inter1", outcomes)
                                     EXCEPT !.pc = "level2", !.l1 = allLevel1Vouches]]
                /\ UNCHANGED loading
  /\ UNCHANGED <<kind, settingVars, unmounted, root, error, cacheVars>>
  /\ Commit

\* fetchVouches after the ring-2 batch has settled
VouchLevel2Settled(i, outcomes) ==
  /\ ~unmounted
  /\ kind = "vouch"
  /\ Running(i)
  /\ inflight[i].pc = "level2"
  /\ LET call == inflight[i]
         level1ProfileIds == CallLevel1ProfileIds(call)
         level2ProfileIds == VouchLevel2ProfileIds(VouchLevel1NodeIds(call.l1, call.pid))
         results == [n \in 1..Len(level2ProfileIds) |->
                       VouchLevel2Result(
                         BatchAnswer(outcomes[n], VouchesBy(level2ProfileIds[n], VOUCH_PAGE)),
                         level1ProfileIds, call.pid)]
     IN inflight' = [inflight EXCEPT ![i] =
                       [Settled(@, "level2", outcomes)
                          EXCEPT !.pc = "inter2", !.l2 = Flat(results)]]
  /\ UNCHANGED <<kind, loading, records, settingVars, unmounted, root, error, cacheVars>>
  /\ Commit

\* fetchVouches after the inter-ring-2 batch has settled
VouchInter2Settled(i, outcomes) ==
  /\ ~unmounted
  /\ kind = "vouch"
  /\ Running(i)
  /\ inflight[i].pc = "inter2"
  /\ LET call == inflight[i]
         level2NodeIds == VouchLevel2NodeIds(call.l2, CallLevel1ProfileIds(call), call.pid)
         results == [n \in 1..Len(level2NodeIds) |->
                       VouchInter2Result(
                         BatchAnswer(outcomes[n],
                                     VouchesBy(level2NodeIds[n], VOUCH_INTER2_PAGE)),
                         level2NodeIds)]
     IN /\ records' = Slice(call.l1 \o call.l2 \o Flat(results), MAX_TOTAL_VOUCHES)
        /\ loading' = FALSE
        /\ inflight' = [inflight EXCEPT ![i] =
                          Settled(Returned(@, "done"), "inter2", outcomes)]
  /\ UNCHANGED <<kind, settingVars, unmounted, root, error, cacheVars>>
  /\ Commit

\* fetchReviews after the two ring-1 responses
ReviewRing1Settled(i, given, received) ==
  /\ ~unmounted
  /\ kind = "review"
  /\ Running(i)
  /\ inflight[i].pc = "ring1"
  /\ IF given.threw \/ received.threw
     THEN /\ error' = THROWN_MESSAGE
          /\ loading' = FALSE
          /\ inflight' = [inflight EXCEPT ![i] = Returned(@, "threw")]
          /\ UNCHANGED records
     ELSE IF ~Ok(given) \/ ~Ok(received)
     THEN /\ error' = REVIEWS_FAILED_MESSAGE
          /\ loading' = FALSE
          /\ inflight' = [inflight EXCEPT ![i] =
                            [Returned(@, "ring1Failed") EXCEPT
                               !.statuses = StatusesOf(given, received)]]
          /\ UNCHANGED records
     ELSE /\ records' = ReviewRing1Snapshot(given.values, received.values, inflight[i].pid)
          /\ loading' = FALSE
          /\ inflight' = [inflight EXCEPT ![i] =
                            [@ EXCEPT !.pc = "level2", !.given = given.values,
                                      !.received = received.values,
                                      !.statuses = StatusesOf(given, received)]]
          /\ UNCHANGED error
  /\ UNCHANGED <<kind, settingVars, unmounted, root, cacheVars>>
  /\ Commit

\* fetchReviews after the ring-2 batch has settled; outcomes[n] is the pair
\* of outcomes of the two requests of the n-th profile
ReviewLevel2Settled(i, outcomes) ==
  /\ ~unmounted
  /\ kind = "review"
  /\ Running(i)
  /\ inflight[i].pc = "level2"
  /\ LET call == inflight[i]
         allReviewsWithLevels == ReviewRing1Snapshot(call.given, call.received, call.pid)
         level2ProfileIds ==
           ReviewLevel2ProfileIds(ReviewProfileIdsToProcess(call.given, call.received, call.pid))
         results == [n \in 1..Len(level2ProfileIds) |->
                       ReviewLevel2Result(
                         BatchAnswer(outcomes[n][1],
                                     ReviewsBy(level2ProfileIds[n],
                                               MAX_LEVEL_2_NODES_PER_PROFILE_REVIEWS)),
                         BatchAnswer(outcomes[n][2],
                                     ReviewsFor(level2ProfileIds[n],
                                                MAX_LEVEL_2_NODES_PER_PROFILE_REVIEWS)))]
     IN /\ records' = allReviewsWithLevels \o ReviewLevel2Reviews(results, allReviewsWithLevels)
        /\ loading' = FALSE
        /\ inflight' = [inflight EXCEPT ![i] =
                          [Settled(Returned(@, "done"), "level2", outcomes)
                             EXCEPT !.l1 = allReviewsWithLevels]]
  /\ UNCHANGED <<kind, settingVars, unmounted, root, error, cacheVars>>
  /\ Commit

\* the profiles a batch of the call asks for, in the order of the requests
ProfilesOf(call, batch) ==
  CASE kind = "vouch" /\ batch = "inter1" -> CallLevel1ProfileIds(call)
    [] kind = "vouch" /\ batch = "level2" ->
         VouchLevel2ProfileIds(VouchLevel1NodeIds(call.l1, call.pid))
    [] kind = "vouch" /\ batch = "inter2" ->
         VouchLevel2NodeIds(call.l2, CallLevel1ProfileIds(call), call.pid)
    [] kind = "review" /\ batch = "level2" ->
         ReviewLevel2ProfileIds(ReviewProfileIdsToProcess(call.given, call.received, call.pid))
    [] OTHER -> <<>>

\* the profiles of the batch the call awaits
BatchProfiles(call) == ProfilesOf(call, call.pc)

\* the steps of the calls, for given sets of answers of the API and of
\* localStorage
Settle(statuses, setItemAnswers, batchOutcomes) ==
  \/ \E i \in 1..Len(inflight) :
        \E response \in {Threw} \cup {Answer(status, InvitationWorld(inflight[i].pid)) :
                                        status \in statuses},
           wellFormed \in BOOLEAN :
           InvitationSettled(i, response, wellFormed)
  \/ \E i \in 1..Len(inflight) :
        \E given \in {Threw} \cup {Answer(status, VouchesBy(inflight[i].pid, VOUCH_PAGE)) :
                                     status \in statuses},
           received \in {Threw} \cup {Answer(status, VouchesFor(inflight[i].pid, VOUCH_PAGE)) :
                                        status \in statuses},
           answerGiven \in setItemAnswers, answerReceived \in setItemAnswers :
           VouchRing1Settled(i, given, received, answerGiven, answerReceived)
  \/ \E i \in 1..Len(inflight) :
        \E outcomes \in [1..Len(BatchProfiles(inflight[i])) -> batchOutcomes] :
           VouchInter1Settled(i, outcomes)
  \/ \E i \in 1..Len(inflight) :
        \E outcomes \in [1..Len(BatchProfiles(inflight[i])) -> batchOutcomes] :
           VouchLevel2Settled(i, outcomes)
  \/ \E i \in 1..Len(inflight) :
        \E outcomes \in [1..Len(BatchProfiles(inflight[i])) -> batchOutcomes] :
           VouchInter2Settled(i, outcomes)
  \/ \E i \in 1..Len(inflight) :
        \E given \in {Threw} \cup
                       {Answer(status, ReviewsBy(inflight[i].pid, MAX_LEVEL_1_NODES_REVIEWS)) :
                          status \in statuses},
           received \in {Threw} \cup
                          {Answer(status, ReviewsFor(inflight[i].pid, MAX_LEVEL_1_NODES_REVIEWS)) :
                             status \in statuses} :
           ReviewRing1Settled(i, given, received)
  \/ \E i \in 1..Len(inflight) :
        \E outcomes \in [1..Len(BatchProfiles(inflight[i])) ->
                           batchOutcomes \X batchOutcomes] :
           ReviewLevel2Settled(i, outcomes)

\* one view, one profile: the call started at mount, with every answer
FetchNext ==
  \/ Mount
  \/ Settle(Ring1Statuses, SetItemAnswers, BatchOutcomes)

FetchSpec == FetchInit /\ [][FetchNext]_vars

\* one view whose profileId prop changes while calls run; a ring-1 request
\* answers 200 or 500 or throws, the requests of the batches succeed
SwitchStatuses == {200, 500}

SwitchInit ==
  /\ FetchInit
  /\ storage \in {EmptyStorage,
                  StorageWith(<<CachedEntry("given", 1, CACHE_VERSION)>>,
                              <<CachedEntry("received", 1, CACHE_VERSION)>>)}

SwitchNext ==
  \/ Mount
  \/ \E pid \in RootIds \cup {Null} : RootChanged(pid)
  \/ Settle(SwitchStatuses, {"stored"}, {"ok"})

SwitchSpec == SwitchInit /\ [][SwitchNext]_vars

\* one view of a hub profile: the ring-1 requests answer with any status or
\* throw, localStorage answers in any way, the requests of the batches succeed
HubStorage(pid) ==
  [k \in CacheKeys |->
     IF k = getVouchesCacheKey(pid, "given")
     THEN <<Stringify([data |-> [values |-> VouchesBy(pid, VOUCH_PAGE)],
                       timestamp |-> 1, version |-> CACHE_VERSION])>>
     ELSE IF k = getVouchesCacheKey(pid, "received")
     THEN <<Stringify([data |-> [values |-> VouchesFor(pid, VOUCH_PAGE)],
                       timestamp |-> 1, version |-> CACHE_VERSION])>>
     ELSE <<>>]

HubInit ==
  /\ kind \in Kinds
  /\ loading = TRUE
  /\ records = <<>>
  /\ visibleRings = [r \in 1..3 |-> r = 1]
  /\ visibleSentiments = [s \in Sentiments |-> TRUE]
  /\ rendered = NotRendered
  /\ isFullscreen = FALSE
  /\ theme = "dark"
  /\ simulations = <<>>
  /\ unmounted = FALSE
  /\ root \in HubIds
  /\ error = NoError
  /\ inflight = <<>>
  /\ storage \in (IF kind = "vouch"
                  THEN {EmptyStorage, HubStorage(root),
                        [HubStorage(root) EXCEPT ![getVouchesCacheKey(root, "received")] = <<>>]}
                  ELSE {EmptyStorage})
  /\ now = FetchNow
  /\ lastRead = NoRead
  /\ stored = [k \in CacheKeys |-> <<>>]

HubNext ==
  \/ Mount
  \/ Settle(Ring1Statuses, SetItemAnswers, {"ok"})

HubSpec == HubInit /\ [][HubNext]_vars

\* one view that the page shows for one twin profile and then for the other
\* or for no profile; every request succeeds; at mount localStorage is empty
\* or holds the two lists of both twins, written at instant 1
TwinStorage ==
  [k \in CacheKeys |->
     IF k[2] \in TwinIds
     THEN <<Stringify([data |-> [values |-> IF k[3] = "given" THEN VouchesBy(k[2], VOUCH_PAGE)
                                           ELSE VouchesFor(k[2], VOUCH_PAGE)],
                       timestamp |-> 1, version |-> CACHE_VERSION])>>
     ELSE <<>>]

VisitInit ==
  /\ kind \in Kinds
  /\ loading = TRUE
  /\ records = <<>>
  /\ visibleRings = [r \in 1..3 |-> r = 1]
  /\ visibleSentiments = [s \in Sentiments |-> TRUE]
  /\ rendered = NotRendered
  /\ isFullscreen = FALSE
  /\ theme = "dark"
  /\ simulations = <<>>
  /\ unmounted = FALSE
  /\ root \in TwinIds
  /\ error = NoError
  /\ inflight = <<>>
  /\ storage \in (IF kind = "vouch" THEN {EmptyStorage, TwinStorage} ELSE {EmptyStorage})
  /\ now = FetchNow
  /\ lastRead = NoRead
  /\ stored = [k \in CacheKeys |-> <<>>]

VisitNext ==
  \/ Mount
  \/ \E pid \in TwinIds \cup {Null} : RootChanged(pid)
  \/ Settle({200}, {"stored"}, {"ok"})

VisitSpec == VisitInit /\ [][VisitNext]_vars

\* ------------------------------------------------- the controls and drags
MaxPointers == 2    \* pointers (mouse, touches) that hold nodes at one time
MaxCoord == 1       \* the coordinates of a pointer run over 0..MaxCoord

Pointers == 1..MaxPointers
Coords == 0..MaxCoord

\* simulation.alphaTarget(0.3), in tenths
DRAG_ALPHA_TARGET == 3

\* node.fx = x; node.fy = y
Pin(fixed, id, x, y) == {f \in fixed : f.id # id} \cup {[id |-> id, fx |-> x, fy |-> y]}

\* node.fx = null; node.fy = null
Unpin(fixed, id) == {f \in fixed : f.id # id}

\* The handlers of the drag behaviour.  d3-drag passes event.active, the
\* number of gestures of the behaviour under way apart from the one the
\* event is about, event.subject, the node, and event.x, event.y, the
\* position of the pointer in the coordinates of the node, which at the
\* start of a gesture is the position of the node.
dragstarted(simulation, active, subject, x, y) ==
  [simulation EXCEPT !.alphaTarget = IF active = 0 THEN DRAG_ALPHA_TARGET ELSE @,
                     !.stopped = IF active = 0 THEN FALSE ELSE @,
                     !.fixed = Pin(@, subject, x, y)]

dragged(simulation, subject, x, y) == [simulation EXCEPT !.fixed = Pin(@, subject, x, y)]

\* faulty variant of dragended: the alpha target is reset at the end of every
\* gesture
dragendedAlways(simulation, active, subject) ==
  [simulation EXCEPT !.alphaTarget = 0, !.fixed = Unpin(@, subject)]

dragended(simulation, active, subject) ==
  [simulation EXCEPT !.alphaTarget = IF active = 0 THEN 0 ELSE @,
                     !.fixed = Unpin(@, subject)]

\* the simulation whose drag behaviour follows the pointer, 0 when none
HeldBy(pointer) ==
  LET holding == {s \in 1..Len(simulations) :
                    \E g \in simulations[s].gestures : g.pointer = pointer}
  IN IF holding = {} THEN 0 ELSE CHOOSE s \in holding : TRUE

\* a pointer that holds nothing goes down on a node of the graph in the svg,
\* which no other pointer holds; the node is at (x, y)
PointerDown(pointer, node, x, y) ==
  /\ ~unmounted
  /\ Shown(loading, error, records) = "graph"
  /\ Len(simulations) > 0
  /\ HeldBy(pointer) = 0
  /\ LET s == Len(simulations) IN
     /\ ~simulations[s].stopped
     /\ node \in simulations[s].nodes
     /\ \A g \in simulations[s].gestures : g.subject # node
     /\ simulations' =
          [simulations EXCEPT ![s] =
             [dragstarted(@, Cardinality(@.gestures), node, x, y) EXCEPT
                !.gestures = @ \cup {[pointer |-> pointer, subject |-> node,
                                      x |-> x, y |-> y]}]]
  /\ UNCHANGED <<kind, loading, records, viewVars, isFullscreen, theme, unmounted,
                 fetchVars, cacheVars>>

\* the pointer moves; the listeners of a gesture stay until the pointer goes
\* up, whatever happens to the svg meanwhile
PointerMove(pointer, x, y) ==
  /\ HeldBy(pointer) # 0
  /\ LET s == HeldBy(pointer)
         g == CHOOSE h \in simulations[s].gestures : h.pointer = pointer
     IN /\ <<x, y>> # <<g.x, g.y>>
        /\ simulations' =
             [simulations EXCEPT ![s] =
                [dragged(@, g.subject, x, y) EXCEPT
                   !.gestures = (@ \ {g}) \cup {[g EXCEPT !.x = x, !.y = y]}]]
  /\ UNCHANGED <<kind, loading, records, viewVars, isFullscreen, theme, unmounted,
                 fetchVars, cacheVars>>

\* the pointer goes up
PointerUp(pointer) ==
  /\ HeldBy(pointer) # 0
  /\ LET s == HeldBy(pointer)
         g == CHOOSE h \in simulations[s].gestures : h.pointer = pointer
     IN simulations' =
          [simulations EXCEPT ![s] =
             [dragended(@, Cardinality(@.gestures) - 1, g.subject) EXCEPT
                !.gestures = @ \ {g}]]
  /\ UNCHANGED <<kind, loading, records, viewVars, isFullscreen, theme, unmounted,
                 fetchVars, cacheVars>>

\* the fullscreen button, which the view shows next to the graph
ToggleFullscreen ==
  /\ ~unmounted
  /\ kind # "invitationEarlier"
  /\ Shown(loading, error, records) = "graph"
  /\ isFullscreen' = ~isFullscreen
  /\ UNCHANGED <<kind, loading, records, visibleRings, visibleSentiments, theme, unmounted,
                 fetchVars, cacheVars>>
  /\ Commit

\* the page switches the theme
ThemeChanged ==
  /\ ~unmounted
  /\ \E th \in Themes \ {theme} : theme' = th
  /\ UNCHANGED <<kind, loading, records, visibleRings, visibleSentiments, isFullscreen,
                 unmounted, fetchVars, cacheVars>>
  /\ Commit

\* React removes the view: the cleanup of the last run of the render effect
\* is called
Teardown ==
  /\ ~unmounted
  /\ Len(inflight) > 0
  /\ unmounted' = TRUE
  /\ rendered' = NotRendered
  /\ simulations' = EffectRun(simulations, FALSE, <<>>)
  /\ UNCHANGED <<kind, loading, records, visibleRings, visibleSentiments, isFullscreen,
                 theme, fetchVars, cacheVars>>

\* one view of a twin profile with its controls: every request succeeds, the
\* page shows the view for the other twin once the calls have returned, one
\* pointer picks nodes up and lets them go where they are
LayoutInit ==
  /\ VisitInit
  /\ root = FirstTwin
  /\ storage = EmptyStorage

LayoutNext ==
  \/ Mount
  \/ \E pid \in TwinIds :
        /\ \A i \in 1..Len(inflight) : inflight[i].pc = "returned"
        /\ RootChanged(pid)
  \/ Settle({200}, {"stored"}, {"ok"})
  \/ \E ring \in 1..3 : ToggleRing(ring)
  \/ \E sentiment \in {"negative"} : ToggleSentiment(sentiment)
  \/ ToggleFullscreen
  \/ ThemeChanged
  \/ Teardown
  \/ \E node \in Ids(rendered.nodes) : PointerDown(1, node, 0, 0)
  \/ PointerUp(1)

LayoutSpec == LayoutInit /\ [][LayoutNext]_vars

\* one view of a twin profile with its pointers: every request succeeds and
\* the view may go fullscreen or be removed while nodes are held
DragNext ==
  \/ Mount
  \/ Settle({200}, {"stored"}, {"ok"})
  \/ ToggleFullscreen
  \/ Teardown
  \/ \E pointer \in Pointers, node \in Ids(rendered.nodes), x \in Coords, y \in Coords :
        PointerDown(pointer, node, x, y)
  \/ \E pointer \in Pointers, x \in Coords, y \in Coords : PointerMove(pointer, x, y)
  \/ \E pointer \in Pointers : PointerUp(pointer)

DragSpec == LayoutInit /\ [][DragNext]_vars

\* ============================================================ properties
Reverse(seq) == [i \in 1..Len(seq) |-> seq[Len(seq) + 1 - i]]

\* the render effect has drawn the current record list
Drawn == ~loading /\ Len(records) > 0

\* origin and target key of a record of a view of kind k
Origin(k, r) ==
  CASE k = "vouch" -> r.authorProfileId
    [] k = "review" -> r.author.profileId
    [] OTHER -> r.senderProfileId

Target(k, r) ==
  CASE k = "vouch" -> r.subjectProfileId
    [] k = "review" -> r.subject.profileId
    [] OTHER -> NodeKey(r.user)

Mentions(k, r, id) == Origin(k, r) = id \/ Target(k, r) = id

Identities(k, recs) ==
  {Origin(k, recs[i]) : i \in 1..Len(recs)} \cup {Target(k, recs[i]) : i \in 1..Len(recs)}

SetMin(S) == CHOOSE x \in S : \A y \in S : x <= y

NodeMapOf(k, recs, profileId) ==
  CASE k = "vouch" -> VouchNodeMap(recs, profileId)
    [] k = "review" -> ReviewNodeMap(recs, profileId)
    [] k = "invitation" -> InvitationNodeMap(recs, profileId)
    [] k = "invitationEarlier" -> EarlierNodeMap(recs, profileId)

KeyLevelPairs(nodeMap) == {<<nodeMap[i].id, nodeMap[i].level>> : i \in 1..Len(nodeMap)}

NodesOf(nodeMap, id) == {i \in 1..Len(nodeMap) : nodeMap[i].id = id}

\* ids joined to the root by links of the drawn graph, in either direction
RECURSIVE Joined(_, _)
Joined(S, links) ==
  LET T == S \cup {links[i].target : i \in {j \in 1..Len(links) : links[j].source \in S}}
             \cup {links[i].source : i \in {j \in 1..Len(links) : links[j].target \in S}}
  IN IF T = S THEN S ELSE Joined(T, links)

\* C1: in the vouch and review views every non-root node of the node map
\* has the smallest level tag among the records that mention its identity.
C1_MinimumLevel ==
  (Drawn /\ kind \in {"vouch", "review"}) =>
    \A i \in 1..Len(rendered.nodeMap) :
      LET node == rendered.nodeMap[i] IN
      ~node.isRoot =>
        node.level = SetMin({records[j].level :
                               j \in {n \in 1..Len(records) : Mentions(kind, records[n], node.id)}})

\* an identity tagged level 1 by one record and level 2 by another ends at 1
C1_Witness ==
  /\ Drawn /\ kind \in {"vouch", "review"}
  /\ \E i \in 1..Len(rendered.nodeMap) : \E a, b \in 1..Len(records) :
       /\ ~rendered.nodeMap[i].isRoot
       /\ Mentions(kind, records[a], rendered.nodeMap[i].id) /\ records[a].level = 1
       /\ Mentions(kind, records[b], rendered.nodeMap[i].id) /\ records[b].level = 2
       /\ a > b
       /\ rendered.nodeMap[i].level = 1

\* C2: every identity that a record names as origin or target has exactly
\* one node in the node map, in the invitation, vouch and review views.
C2_SingleNodePerIdentity ==
  (Drawn /\ kind \in {"invitation", "vouch", "review"}) =>
    \A id \in Identities(kind, records) : Cardinality(NodesOf(rendered.nodeMap, id)) = 1

\* C3: normalizing a record list and normalizing its reverse give the same
\* set of (key, level) pairs, for lists within the node budget.
C3_OrderIndependent ==
  (Drawn /\ Len(records) <= MAX_TOTAL_NODES) =>
    KeyLevelPairs(NodeMapOf(kind, records, root))
      = KeyLevelPairs(NodeMapOf(kind, Reverse(records), root))

\* C4: exactly one node is the root, the root has level 0, and no other
\* node has level 0.
C4_RootInvariant ==
  (Drawn /\ kind \in {"invitation", "vouch", "review"}) =>
    /\ Cardinality({i \in 1..Len(rendered.nodeMap) : rendered.nodeMap[i].isRoot}) = 1
    /\ \A i \in 1..Len(rendered.nodeMap) :
         rendered.nodeMap[i].isRoot <=> rendered.nodeMap[i].level = 0

\* C5: both ends of every link handed to the layout are nodes handed to the
\* layout.
C5_EdgeEndpointsRendered ==
  \A i \in 1..Len(rendered.links) :
    /\ rendered.links[i].source \in Ids(rendered.nodes)
    /\ rendered.links[i].target \in Ids(rendered.nodes)

\* the node limit cut the node list and the record of a cut node gave no link
C5_Witness ==
  /\ Drawn
  /\ Len(rendered.nodeMap) > Len(rendered.nodes)
  /\ Len(rendered.nodes) = MAX_TOTAL_NODES
  /\ Len(rendered.links) > 0
  /\ Len(rendered.links) < Len(records)

\* C6: in the vouch and review views every node handed to the layout, other
\* than the root, is joined to the root by a path of links handed to the
\* layout.
C6_NoOrphans ==
  (Drawn /\ kind \in {"vouch", "review"}) =>
    Ids(rendered.nodes) \ {root} \subseteq Joined({root}, rendered.links)

C8_Reciprocity ==
  (Drawn /\ kind = "vouch") =>
    \A i \in 1..Len(rendered.links) :
      LET link == rendered.links[i] IN
      link.isReciprocal <=>
        \E j \in 1..Len(records) :
           records[j].authorProfileId = link.target /\ records[j].subjectProfileId = link.source

\* A -> B and B -> A are both drawn and both flagged
C8_Witness ==
  /\ Drawn /\ kind = "vouch"
  /\ \E i, j \in 1..Len(rendered.links) :
       /\ i # j
       /\ rendered.links[i].source = rendered.links[j].target
       /\ rendered.links[i].target = rendered.links[j].source
       /\ rendered.links[i].isReciprocal /\ rendered.links[j].isReciprocal

\* the invitation tree R invites A (level 1), A invites B (level 2)
TreeScenario ==
  <<[senderProfileId |-> 1, user |-> [profileId |-> 2, id |-> 2], level |-> 1],
    [senderProfileId |-> 2, user |-> [profileId |-> 3, id |-> 3], level |-> 2]>>

\* C9: the invitation tree, in either order, yields the nodes R at level 0,
\* A at level 1, B at level 2 and the links R -> A and A -> B.
C9_InvitationTree ==
  (Drawn /\ kind \in {"invitation", "invitationEarlier"}
         /\ records \in {TreeScenario, Reverse(TreeScenario)}) =>
    /\ Len(rendered.nodes) = 3
    /\ KeyLevelPairs(rendered.nodes) = {<<1, 0>>, <<2, 1>>, <<3, 2>>}
    /\ Len(rendered.links) = 2
    /\ {<<rendered.links[i].source, rendered.links[i].target>> : i \in 1..Len(rendered.links)}
         = {<<1, 2>>, <<2, 3>>}

\* C10: in the vouch and review views every node handed to the layout is
\* the root, or has level 1, or has a level whose ring flag is on; with
\* rings 2 and 3 off only nodes of level 0 and 1 and links between them
\* are handed over.
C10_HiddenRingsStayHidden ==
  (Drawn /\ kind \in {"vouch", "review"}) =>
    /\ \A i \in 1..Len(rendered.nodes) :
         LET node == rendered.nodes[i] IN
         node.isRoot \/ node.level = 1 \/ RingFlag(visibleRings, node.level, FALSE)
    /\ (~visibleRings[2] /\ ~visibleRings[3]) =>
         /\ \A i \in 1..Len(rendered.nodes) : rendered.nodes[i].level \in {0, 1}
         /\ \A i \in 1..Len(rendered.links) :
              \A n \in 1..Len(rendered.nodeMap) :
                 rendered.nodeMap[n].id \in {rendered.links[i].source, rendered.links[i].target}
                   => rendered.nodeMap[n].level \in {0, 1}

\* rings 2 and 3 are off, the node map holds a level-2 node with a record
\* to a drawn node, and that node is not handed over
C10_Witness ==
  /\ Drawn /\ kind \in {"vouch", "review"}
  /\ ~visibleRings[2] /\ ~visibleRings[3]
  /\ Len(rendered.nodes) > 1
  /\ \E n \in 1..Len(rendered.nodeMap) :
       /\ rendered.nodeMap[n].level = 2
       /\ rendered.nodeMap[n].id \notin Ids(rendered.nodes)
       /\ \E j \in 1..Len(records) :
            /\ Mentions(kind, records[j], rendered.nodeMap[n].id)
            /\ \E m \in 1..Len(rendered.nodes) :
                 rendered.nodes[m].id # rendered.nodeMap[n].id
                 /\ Mentions(kind, records[j], rendered.nodes[m].id)

\* C11: in the vouch and review views, with every sentiment on and a node
\* map within the node limit, the root and every identity that a level-1
\* record joins directly to the root are handed to the layout, whatever the
\* ring flags are.
C11_RingOneVisible ==
  (/\ Drawn /\ kind \in {"vouch", "review"}
   /\ \A s \in Sentiments : visibleSentiments[s]
   /\ Len(rendered.nodeMap) <= MAX_TOTAL_NODES) =>
    /\ root \in Ids(rendered.nodes)
    /\ \A j \in 1..Len(records) :
         (records[j].level = 1 /\ Mentions(kind, records[j], root)) =>
            {Origin(kind, records[j]), Target(kind, records[j])} \subseteq Ids(rendered.nodes)

\* C12: in the review view the root is handed to the layout exactly when
\* some sentiment is on, even when no visible link touches it; with every
\* sentiment off nothing is handed over.
C12_RootVisibleInReviews ==
  (Drawn /\ kind = "review") =>
    /\ (root \in Ids(rendered.nodes)) <=> (\E s \in Sentiments : visibleSentiments[s])
    /\ (\A s \in Sentiments : ~visibleSentiments[s]) => rendered.nodes = <<>>

\* C20: a step that turns ring 3 from off to on ends with ring 2 on, and
\* ring 1 is on in every reachable state.
C20_RingToggleAutoEnable ==
  /\ [](visibleRings[1])
  /\ [][(~visibleRings[3] /\ visibleRings'[3]) => visibleRings'[2]]_vars

\* ring 3 has been turned on in a drawn view and ring 2 is on with it
C20_Witness ==
  /\ Drawn /\ kind \in {"vouch", "review"}
  /\ visibleRings[1] /\ visibleRings[2] /\ visibleRings[3]

NoDataMessages == {NO_INVITATIONS_MESSAGE}

FailureFates == {"missingId", "ring1Failed", "threw", "invalid"}

\* the non-2xx statuses among the ring-1 responses of a call
FailedStatuses(call) ==
  {call.statuses[n] : n \in {m \in 1..Len(call.statuses) :
                               call.statuses[m] < 200 \/ call.statuses[m] > 299}}

\* C13: in every graph type, a call whose ring-1 request answered 404 ends
\* with the no-data message, and a call whose ring-1 request answered another
\* non-2xx status ends with a fetch-failed error that is not the no-data
\* message.
C13_Ring1FailureClassified ==
  \A i \in 1..Len(inflight) :
     inflight[i].fate = "ring1Failed" =>
        /\ FailedStatuses(inflight[i]) = {404} => error \in NoDataMessages
        /\ 404 \notin FailedStatuses(inflight[i]) =>
             error # NoError /\ error \notin NoDataMessages

\* C14: whenever a fetch procedure has returned, loading is false, and when
\* it returned on a failure path (missing id, ring-1 non-2xx, thrown
\* exception, malformed body) error is non-null.
C14_FetchEndsDefined ==
  \A i \in 1..Len(inflight) :
     inflight[i].pc = "returned" =>
        /\ loading = FALSE
        /\ inflight[i].fate \in FailureFates => error # NoError

\* the records the fetcher keeps of the 200 answer of the n-th request of
\* the vouch batch that has settled
VouchKeptOf(call, n) ==
  LET asked == ProfilesOf(call, call.batch)[n]
      level1ProfileIds == CallLevel1ProfileIds(call)
  IN CASE call.batch = "inter1" ->
            VouchInter1Result(Answer(200, VouchesBy(asked, VOUCH_PAGE)), level1ProfileIds)
       [] call.batch = "level2" ->
            VouchLevel2Result(Answer(200, VouchesBy(asked, VOUCH_PAGE)),
                              level1ProfileIds, call.pid)
       [] OTHER ->
            VouchInter2Result(Answer(200, VouchesBy(asked, VOUCH_INTER2_PAGE)),
                              ProfilesOf(call, "inter2"))

\* where the results of the vouch batch that has settled go
VouchBatchTarget(call) ==
  CASE call.batch = "inter1" -> call.l1
    [] call.batch = "level2" -> call.l2
    [] OTHER -> records

\* the records the fetcher keeps of the 200 answers of the two requests of
\* the n-th profile of the review batch
ReviewKeptOfGiven(call, n) ==
  ReviewLevel2Result(
    Answer(200, ReviewsBy(ProfilesOf(call, "level2")[n], MAX_LEVEL_2_NODES_PER_PROFILE_REVIEWS)),
    Answer(500, <<>>))

ReviewKeptOfReceived(call, n) ==
  ReviewLevel2Result(
    Answer(500, <<>>),
    Answer(200, ReviewsFor(ProfilesOf(call, "level2")[n], MAX_LEVEL_2_NODES_PER_PROFILE_REVIEWS)))

Within(part, whole) == \A n \in 1..Len(part) : Includes(whole, part[n])

AwaitsBatch(call) == call.fate = "running" /\ call.pc \in {"inter1", "level2", "inter2"}

\* the ring-1 records the fetcher keeps of the two bodies, tagged level 1
Ring1Kept(call) ==
  IF kind = "vouch"
  THEN {Tagged(v, 1) : v \in {w \in Range(call.given) \cup Range(call.received) :
                                isVouchFunded(w)}}
  ELSE {Tagged(a, 1) : a \in {b \in Range(call.given) : Truthy(b.subject.profileId)}
                                \cup {b \in Range(call.received) : Truthy(b.author.profileId)}}

\* C16: in the vouch and review fetchers, while the call started at mount
\* awaits a fan-out batch (for as long as that lasts), loading is false,
\* error is null, the published list holds level-1 records only and holds
\* every ring-1 record, and the view shows the graph when the list is not
\* empty.
C16_ProgressiveLoading ==
  \A i \in 1..Len(inflight) :
     AwaitsBatch(inflight[i]) =>
        /\ loading = FALSE
        /\ error = NoError
        /\ \A j \in 1..Len(records) : records[j].level = 1
        /\ Ring1Kept(inflight[i]) \subseteq Range(records)
        /\ Len(records) > 0 => Shown(loading, error, records) = "graph"

\* both ring-1 requests have answered 200 and no batch has settled yet
C16_Witness ==
  \E i \in 1..Len(inflight) :
     /\ AwaitsBatch(inflight[i])
     /\ inflight[i].batch = "none"
     /\ ~inflight[i].cached
     /\ inflight[i].statuses = <<200, 200>>
     /\ Len(inflight[i].received) > 0
     /\ Len(records) > 0

\* the entry of the key is present, parses, has the current version and
\* has not expired at time t
ValidEntry(st, key, t) ==
  /\ st[key] # <<>>
  /\ Parses(st[key][1])
  /\ Parse(st[key][1]).version = CACHE_VERSION
  /\ t - Parse(st[key][1]).timestamp <= VOUCHES_TTL

BothValid(st, pid, t) ==
  /\ ValidEntry(st, getVouchesCacheKey(pid, "given"), t)
  /\ ValidEntry(st, getVouchesCacheKey(pid, "received"), t)

\* the ring-1 snapshot of the bodies the API answers with for the profile
NetworkSnapshot(pid) ==
  VouchRing1Snapshot([values |-> VouchesBy(pid, VOUCH_PAGE)],
                     [values |-> VouchesFor(pid, VOUCH_PAGE)])

\* the item of the key was written by this run of the view
WrittenNow(st, key) ==
  st[key] # <<>> /\ Parses(st[key][1]) /\ Parse(st[key][1]).timestamp = FetchNow

\* C19: in the vouch fetcher the ring-1 snapshot published from the cached
\* bodies equals the one published from the network; a call uses the cache
\* exactly when both entries are present and valid; a call that does not,
\* fetches both lists; and a cache entry is written only when both
\* responses have succeeded.
C19_CacheTransparent ==
  \A i \in 1..Len(inflight) :
     LET call == inflight[i] IN
     (kind = "vouch" /\ Truthy(call.pid)) =>
        /\ (call.pc = "inter1" /\ call.batch = "none") => records = NetworkSnapshot(call.pid)
        /\ call.cached => BothValid(storage, call.pid, now)
        /\ (~call.cached /\ call.pc = "ring1") => ~BothValid(storage, call.pid, now)
        /\ (~call.cached /\ call.pc \in {"inter1", "level2", "inter2"}) =>
             call.statuses = <<200, 200>>
        /\ \A type \in {"given", "received"} :
              WrittenNow(storage, getVouchesCacheKey(call.pid, type)) =>
                 call.statuses = <<200, 200>>

\* a call has published the snapshot of the two cached bodies
C19_Witness ==
  \E i \in 1..Len(inflight) :
     /\ kind = "vouch"
     /\ inflight[i].cached
     /\ inflight[i].pc = "inter1"
     /\ Len(inflight[i].received) > 0
     /\ records = NetworkSnapshot(inflight[i].pid)

\* C17: once the fetch for a later profileId has started, no step of a call
\* started for an earlier profileId writes the record list, error or
\* loading.
C17_StaleResponsesIgnored ==
  [][\A i \in 1..Len(inflight) :
       (i < Len(inflight) /\ inflight'[i] # inflight[i]) =>
          UNCHANGED <<records, error, loading>>]_vars

\* C27: in the vouch and review views a step that turns a ring from on to
\* off leaves the flags of the other rings as they were; in particular
\* turning ring 3 off does not change the flag of ring 2.
C27_RingOffFrame ==
  [][\A ring \in 1..3 :
       (kind \in {"vouch", "review"} /\ visibleRings[ring] /\ ~visibleRings'[ring]) =>
          \A r \in (1..3) \ {ring} : visibleRings'[r] = visibleRings[r]]_vars

\* C28: in the vouch and review views, in every state reached by toggleRing
\* calls from {1: on, 2: off, 3: off}, ring 3 on implies ring 2 on.
C28_RingNesting ==
  kind \in {"vouch", "review"} => (visibleRings[3] => visibleRings[2])

\* the identities other than pid that the level-1 records of a list name
Ring1Identities(k, recs, pid) ==
  UNION {{Origin(k, recs[j]), Target(k, recs[j])} :
           j \in {m \in 1..Len(recs) : recs[m].level = 1}} \ {pid}

\* C23: in the vouch and review fetchers no level-2 record of a published
\* snapshot has the root or a ring-1 identity as its target, and no level-2
\* record joins the same origin to the same target as a level-1 record of
\* the snapshot.
C23_Ring2Exclusion ==
  \A i \in 1..Len(inflight) :
     (kind \in {"vouch", "review"} /\ Truthy(inflight[i].pid)) =>
        \A j \in 1..Len(records) :
           records[j].level = 2 =>
              /\ Target(kind, records[j])
                    \notin {inflight[i].pid} \cup Ring1Identities(kind, records, inflight[i].pid)
              /\ \A m \in 1..Len(records) :
                    records[m].level = 1 =>
                       \/ Origin(kind, records[m]) # Origin(kind, records[j])
                       \/ Target(kind, records[m]) # Target(kind, records[j])

\* C23 for the vouch fetcher alone
C23_VouchRing2Exclusion == kind = "vouch" => C23_Ring2Exclusion

\* C24: every record of every snapshot the vouch fetcher publishes (ring 1
\* from the cache or the network, inter-ring-1, ring 2, inter-ring-2) has a
\* balance text that parses to a number greater than 0.
C24_FundedOnly ==
  kind = "vouch" =>
    \A j \in 1..Len(records) :
       /\ ParseFloatTenths(records[j].balance) # <<>>
       /\ ParseFloatTenths(records[j].balance)[1] > 0

\* the final snapshot is published, with records of ring 2, and the ring-1
\* bodies held vouches whose balance is zero, negative or not a number
C24_Witness ==
  \E i \in 1..Len(inflight) :
     /\ kind = "vouch"
     /\ inflight[i].fate = "done" /\ inflight[i].batch = "inter2"
     /\ \E j \in 1..Len(records) : records[j].level = 2
     /\ \E v \in Range(inflight[i].given) : v.balance = "0"
     /\ \E v \in Range(inflight[i].given) : v.balance = "-2"
     /\ \E v \in Range(inflight[i].received) : v.balance = "abc"

C21_VouchCut ==
  \E i \in 1..Len(inflight) :
     /\ kind = "vouch"
     /\ Len(inflight[i].l1) > MAX_TOTAL_VOUCHES
     /\ Len(records) = MAX_TOTAL_VOUCHES

\* C22: in the vouch and review fetchers a call that awaits a fan-out batch
\* (inter-ring-1, ring-2 or inter-ring-2) has sent the requests of that
\* batch for at most 10 distinct identities.
C22_BoundedFanOut ==
  \A i \in 1..Len(inflight) :
     (kind \in {"vouch", "review"} /\ AwaitsBatch(inflight[i])) =>
        Cardinality(Range(BatchProfiles(inflight[i]))) <= LEVEL_2_FANOUT

\* C22 for the ring-2 batches alone
C22_Ring2FanOut ==
  \A i \in 1..Len(inflight) :
     (kind \in {"vouch", "review"} /\ AwaitsBatch(inflight[i]) /\ inflight[i].pc = "level2") =>
        Cardinality(Range(BatchProfiles(inflight[i]))) <= LEVEL_2_FANOUT

\* the call started last, which is the call for the current profileId, has
\* obtained the two ring-1 lists (from the cache or from two 200 answers)
\* and has published them
Ring1Published ==
  /\ Len(inflight) > 0
  /\ LET call == inflight[Len(inflight)] IN
       /\ call.pid = root
       /\ Truthy(call.pid)
       /\ call.cached \/ call.statuses = <<200, 200>>
       /\ call.pc # "ring1"

\* C29: in the vouch view, whatever profileId changes went before, whenever
\* the ring-1 data of the current profileId has been obtained and published,
\* error is null.
C29_ErrorClearedOnSuccess ==
  (kind = "vouch" /\ Ring1Published) => error = NoError

\* C30: in the vouch and review views, when the call for the current root
\* publishes its final snapshot and the view shows the graph, the graph in
\* the svg is the one the render effect builds from that snapshot with the
\* current root, also when the snapshot is as long as the list before it.
C30_RenderedCurrent ==
  [][\A i \in 1..Len(inflight) :
       (/\ kind \in {"vouch", "review"}
        /\ i = Len(inflight')
        /\ inflight'[i].pid = root'
        /\ inflight[i].pc # "returned"
        /\ inflight'[i].pc = "returned"
        /\ inflight'[i].fate = "done"
        /\ Shown(loading', error', records') = "graph")
         => rendered' = Render(kind, records', visibleRings', visibleSentiments', root')]_vars

\* C26: in every view, whatever the sequence of new snapshots, ring and
\* sentiment toggles, fullscreen toggles, theme changes and root changes,
\* at most one simulation that was not stopped exists, and none once the
\* view has been removed.
C26_SimulationDisposal ==
  /\ Cardinality({s \in 1..Len(simulations) : ~simulations[s].stopped}) <= 1
  /\ unmounted => \A s \in 1..Len(simulations) : simulations[s].stopped

\* the graph was rebuilt in fullscreen while a node was held: the simulation
\* of the held node is stopped and the simulation of the new graph runs
C26_Witness ==
  /\ isFullscreen
  /\ Len(simulations) = 2
  /\ simulations[1].stopped /\ simulations[1].gestures # {}
  /\ ~simulations[2].stopped

====
